---- MODULE Spec2Model ----
(***************************************************************************)
(* A model of the workflow orchestration engine of flowvex:                *)
(*   crates/workflow-engine/src/parser.rs    (WorkflowParser)              *)
(*   crates/workflow-engine/src/executor.rs  (WorkflowExecutor)            *)
(*   crates/common/src/types.rs              (Workflow, ExecutionContext)  *)
(* Node ids (Uuid) are small naturals, a Workflow is its node list and its *)
(* edge list, in the order the Vec holds them.                             *)
(***************************************************************************)
EXTENDS Integers, Sequences, FiniteSets, TLC

VARIABLES
    workflow,            \* parser: the Workflow handed to the WorkflowParser
    parse_result,        \* parser: what parse returned for it, or NoResult
    sort_result,         \* parser: what topological_sort returned, or NoResult
    execution_contexts,  \* executor: execution id -> registered context
    variables,           \* executor: the Arc<RwLock<HashMap>> allocations
    calls,               \* executor: the calls in flight or returned
    schedules,           \* scheduler: workflow id -> ScheduleConfig
    running,             \* scheduler: the running flag
    loops,               \* scheduler: the background loops start has spawned
    scheduler_call,      \* scheduler: the last call of its API and what it returned
    validated_workflow,  \* validator: the Workflow handed to the WorkflowValidator
    validate_result,     \* validator: what validate returned for it, or NoValidation
    reachability_result, \* validator: what validate_reachability returned, or none
    type_check,          \* validator: two data types and are_types_compatible on them
    cron_check           \* scheduler: a cron field or expression, a time, and the match

parserVars == <<workflow, parse_result, sort_result>>
executorVars == <<execution_contexts, variables, calls>>
schedulerVars == <<schedules, running, loops, scheduler_call>>
validatorVars ==
    <<validated_workflow, validate_result, reachability_result, type_check>>
cronVars == <<cron_check>>
vars == <<workflow, parse_result, sort_result,
          execution_contexts, variables, calls,
          schedules, running, loops, scheduler_call,
          validated_workflow, validate_result, reachability_result, type_check,
          cron_check>>

(***************************************************************************)
(* Bounds of the model.                                                    *)
(***************************************************************************)
MaxNodes == 2
MaxEdges == 3

NodeIds == 1..MaxNodes

\* Uuid::nil(), the id topological_sort puts in its CycleDetected error.
NilUuid == 0

Range(s) == {s[i] : i \in DOMAIN s}

SeqsUpTo(S, n) == UNION {[1..k -> S] : k \in 0..n}

Min(S) == CHOOSE x \in S : \A y \in S : x <= y

\* The orders in which a HashMap may iterate over the keys S.
HashOrders(S) ==
    {p \in [1..Cardinality(S) -> S] : \A i, j \in DOMAIN p : i # j => p[i] # p[j]}

(***************************************************************************)
(* common::types                                                           *)
(***************************************************************************)
Edge(s, h, t) == [source |-> s, source_handle |-> h, target |-> t]

Workflow(ns, es) == [nodes |-> ns, edges |-> es]

NodeSet(wf) == Range(wf.nodes)

(***************************************************************************)
(* Result values: Ok, or a ParseError with the node id it carries.         *)
(***************************************************************************)
NoResult == [kind |-> "None", node |-> NilUuid, order |-> <<>>]

Ok == [kind |-> "Ok", node |-> NilUuid, order |-> <<>>]

OkOrder(sorted) == [kind |-> "Ok", node |-> NilUuid, order |-> sorted]

Err(k, id) == [kind |-> k, node |-> id, order |-> <<>>]

\* A failed unwrap(): the call does not return.
Panic == [kind |-> "Panic", node |-> NilUuid, order |-> <<>>]

(***************************************************************************)
(* WorkflowParser::validate_structure                                      *)
(***************************************************************************)
\* A faulty variant of validate_structure: an edge's target is looked up before
\* its source.
validate_structure_target_first(wf) ==
    LET nodes == wf.nodes
        edges == wf.edges
        node_ids == Range(nodes)
        dups == {i \in DOMAIN nodes : \E j \in 1..(i - 1) : nodes[j] = nodes[i]}
        bad == {i \in DOMAIN edges :
                    edges[i].source \notin node_ids \/ edges[i].target \notin node_ids}
    IN  IF Len(nodes) = 0 THEN Err("EmptyWorkflow", NilUuid)
        ELSE IF dups # {} THEN Err("DuplicateNodeId", nodes[Min(dups)])
        ELSE IF bad # {} THEN
            LET e == edges[Min(bad)]
            IN  IF e.target \notin node_ids
                THEN Err("InvalidEdgeTarget", e.target)
                ELSE Err("InvalidEdgeSource", e.source)
        ELSE Ok

validate_structure(wf) ==
    LET nodes == wf.nodes
        edges == wf.edges
        node_ids == Range(nodes)
        dups == {i \in DOMAIN nodes : \E j \in 1..(i - 1) : nodes[j] = nodes[i]}
        bad == {i \in DOMAIN edges :
                    edges[i].source \notin node_ids \/ edges[i].target \notin node_ids}
    IN  IF Len(nodes) = 0 THEN Err("EmptyWorkflow", NilUuid)
        ELSE IF dups # {} THEN Err("DuplicateNodeId", nodes[Min(dups)])
        ELSE IF bad # {} THEN
            LET e == edges[Min(bad)]
            IN  IF e.source \notin node_ids
                THEN Err("InvalidEdgeSource", e.source)
                ELSE Err("InvalidEdgeTarget", e.target)
        ELSE Ok

(***************************************************************************)
(* WorkflowParser::analyze_dependencies                                    *)
(***************************************************************************)
\* A faulty variant of analyze_dependencies: the starting-node gate is not applied.
analyze_dependencies_no_gate(wf) == Ok

analyze_dependencies(wf) ==
    LET node_ids == Range(wf.nodes)
        has_incoming == {wf.edges[i].target : i \in DOMAIN wf.edges}
        starting_nodes == node_ids \ has_incoming
    IN  IF starting_nodes = {} THEN Err("NoStartingNode", NilUuid) ELSE Ok

(***************************************************************************)
(* The adjacency list both detect_cycles and topological_sort build:       *)
(* adjacency_list.get(n), the targets of n's edges in edge order (empty    *)
(* where the map has no entry).                                            *)
(***************************************************************************)
RECURSIVE targets_from(_, _, _)
targets_from(edges, n, i) ==
    IF i > Len(edges) THEN <<>>
    ELSE IF edges[i].source = n
         THEN <<edges[i].target>> \o targets_from(edges, n, i + 1)
         ELSE targets_from(edges, n, i + 1)

adjacency_list(wf, n) == targets_from(wf.edges, n, 1)

(***************************************************************************)
(* WorkflowParser::has_cycle_dfs, with its loop over the neighbors.        *)
(***************************************************************************)
RECURSIVE has_cycle_dfs(_, _, _, _)
RECURSIVE dfs_neighbors(_, _, _, _, _)

\* A faulty variant of dfs_neighbors: every neighbor already visited counts as a back
\* edge, whether or not it is still on the recursion stack.
dfs_neighbors_any_visited(wf, neighbors, i, visited, rec_stack) ==
    IF i > Len(neighbors)
    THEN [cycle |-> FALSE, visited |-> visited, rec_stack |-> rec_stack]
    ELSE IF neighbors[i] \notin visited THEN
        LET r == has_cycle_dfs(wf, neighbors[i], visited, rec_stack)
        IN  IF r.cycle THEN r
            ELSE dfs_neighbors(wf, neighbors, i + 1, r.visited, r.rec_stack)
    ELSE [cycle |-> TRUE, visited |-> visited, rec_stack |-> rec_stack]

has_cycle_dfs(wf, node_id, visited, rec_stack) ==
    LET r == dfs_neighbors(wf, adjacency_list(wf, node_id), 1,
                           visited \cup {node_id}, rec_stack \cup {node_id})
    IN  IF r.cycle THEN r
        ELSE [cycle |-> FALSE, visited |-> r.visited,
              rec_stack |-> r.rec_stack \ {node_id}]

dfs_neighbors(wf, neighbors, i, visited, rec_stack) ==
    IF i > Len(neighbors)
    THEN [cycle |-> FALSE, visited |-> visited, rec_stack |-> rec_stack]
    ELSE IF neighbors[i] \notin visited THEN
        LET r == has_cycle_dfs(wf, neighbors[i], visited, rec_stack)
        IN  IF r.cycle THEN r
            ELSE dfs_neighbors(wf, neighbors, i + 1, r.visited, r.rec_stack)
    ELSE IF neighbors[i] \in rec_stack
    THEN [cycle |-> TRUE, visited |-> visited, rec_stack |-> rec_stack]
    ELSE dfs_neighbors(wf, neighbors, i + 1, visited, rec_stack)

(***************************************************************************)
(* WorkflowParser::detect_cycles: a DFS from each unvisited node, in node  *)
(* list order; the error carries the node the DFS was started from.        *)
(***************************************************************************)
RECURSIVE detect_cycles_from(_, _, _, _)
detect_cycles_from(wf, i, visited, rec_stack) ==
    IF i > Len(wf.nodes) THEN Ok
    ELSE IF wf.nodes[i] \in visited
    THEN detect_cycles_from(wf, i + 1, visited, rec_stack)
    ELSE LET r == has_cycle_dfs(wf, wf.nodes[i], visited, rec_stack)
         IN  IF r.cycle THEN Err("CycleDetected", wf.nodes[i])
             ELSE detect_cycles_from(wf, i + 1, r.visited, r.rec_stack)

detect_cycles(wf) == detect_cycles_from(wf, 1, {}, {})

(***************************************************************************)
(* WorkflowParser::parse, from the deserialized Workflow on: each gate     *)
(* returns its error with `?`.                                             *)
(***************************************************************************)
parse(wf) ==
    IF validate_structure(wf).kind # "Ok" THEN validate_structure(wf)
    ELSE IF analyze_dependencies(wf).kind # "Ok" THEN analyze_dependencies(wf)
    ELSE IF detect_cycles(wf).kind # "Ok" THEN detect_cycles(wf)
    ELSE Ok

(***************************************************************************)
(* WorkflowParser::topological_sort (Kahn).  in_degree is a HashMap keyed  *)
(* by node id; the queue is seeded with its zero-degree keys in the        *)
(* HashMap's iteration order, which is the parameter hash_order.           *)
(***************************************************************************)
in_degree_of(wf) ==
    [n \in Range(wf.nodes) |->
        Cardinality({i \in DOMAIN wf.edges : wf.edges[i].target = n})]

RECURSIVE reduce_in_degree(_, _, _, _)
reduce_in_degree(neighbors, i, queue, in_degree) ==
    IF i > Len(neighbors) THEN [queue |-> queue, in_degree |-> in_degree]
    ELSE LET neighbor == neighbors[i]
             degree == in_degree[neighbor] - 1
         IN  reduce_in_degree(neighbors, i + 1,
                 IF degree = 0 THEN Append(queue, neighbor) ELSE queue,
                 [in_degree EXCEPT ![neighbor] = degree])

RECURSIVE kahn_loop(_, _, _, _)
kahn_loop(wf, queue, in_degree, sorted) ==
    IF queue = <<>> THEN sorted
    ELSE LET node_id == Head(queue)
             r == reduce_in_degree(adjacency_list(wf, node_id), 1,
                                   Tail(queue), in_degree)
         IN  kahn_loop(wf, r.queue, r.in_degree, Append(sorted, node_id))

\* A faulty variant of topological_sort: the sorted list is built back to front.
topological_sort_reversed(wf, hash_order) ==
    IF \E i \in DOMAIN wf.edges : wf.edges[i].target \notin Range(wf.nodes)
    THEN Panic
    ELSE LET in_degree == in_degree_of(wf)
             queue == SelectSeq(hash_order, LAMBDA n : in_degree[n] = 0)
             sorted == kahn_loop(wf, queue, in_degree, <<>>)
         IN  IF Len(sorted) # Len(wf.nodes)
             THEN Err("CycleDetected", NilUuid)
             ELSE OkOrder([i \in DOMAIN sorted |-> sorted[Len(sorted) + 1 - i]])

topological_sort(wf, hash_order) ==
    IF \E i \in DOMAIN wf.edges : wf.edges[i].target \notin Range(wf.nodes)
    THEN Panic
    ELSE LET in_degree == in_degree_of(wf)
             queue == SelectSeq(hash_order, LAMBDA n : in_degree[n] = 0)
             sorted == kahn_loop(wf, queue, in_degree, <<>>)
         IN  IF Len(sorted) # Len(wf.nodes)
             THEN Err("CycleDetected", NilUuid)
             ELSE OkOrder(sorted)

(***************************************************************************)
(* The parser as a state machine: a Workflow, and the two calls on it.     *)
(***************************************************************************)
EdgeSet == {Edge(s, "output", t) : s \in NodeIds, t \in NodeIds}

ParserWorkflows ==
    {Workflow(ns, es) : ns \in SeqsUpTo(NodeIds, MaxNodes),
                        es \in SeqsUpTo(EdgeSet, MaxEdges)}

ParseCall ==
    /\ parse_result = NoResult
    /\ parse_result' = parse(workflow)
    /\ UNCHANGED <<workflow, sort_result>>
    /\ UNCHANGED <<executorVars, schedulerVars, validatorVars, cronVars>>

TopologicalSortCall ==
    /\ sort_result = NoResult
    /\ \E hash_order \in HashOrders(Range(workflow.nodes)) :
           sort_result' = topological_sort(workflow, hash_order)
    /\ UNCHANGED <<workflow, parse_result>>
    /\ UNCHANGED <<executorVars, schedulerVars, validatorVars, cronVars>>

ParserNext == ParseCall \/ TopologicalSortCall

(***************************************************************************)
(* Bounds of the executor's model.                                         *)
(***************************************************************************)
MaxExecutions == 2      \* execution ids in use
MaxCalls == 2           \* calls of execute, execute_with_retry, resume_from_failure
MaxRetries == 1         \* largest max_retries handed to execute_with_retry

ExecutionIds == 1..MaxExecutions

(***************************************************************************)
(* The workflows handed to the executor.  SimpleWorkflow is the tests'     *)
(* create_simple_workflow; the others add a join of two starting nodes, a  *)
(* duplicated edge and a cycle.                                            *)
(***************************************************************************)
SimpleWorkflow == Workflow(<<1, 2>>, <<Edge(1, "output", 2)>>)

JoinWorkflow ==
    Workflow(<<1, 2, 3>>, <<Edge(1, "output", 3), Edge(2, "output", 3)>>)

DuplicateEdgeWorkflow ==
    Workflow(<<2, 1>>, <<Edge(1, "output", 2), Edge(1, "output", 2)>>)

CyclicWorkflow ==
    Workflow(<<1, 2>>, <<Edge(1, "output", 2), Edge(2, "output", 1)>>)

ExecutorWorkflows ==
    {SimpleWorkflow, JoinWorkflow, DuplicateEdgeWorkflow, CyclicWorkflow}

\* self.parser.topological_sort(workflow) on these workflows: what it returns
\* for each iteration order of its HashMap, tabulated.
ExecutorSorts ==
    UNION {{<<wf, hash_order, topological_sort(wf, hash_order)>> :
                hash_order \in HashOrders(Range(wf.nodes))} : wf \in ExecutorWorkflows}

\* A faulty variant of parser_topological_sort: a workflow the sort rejects comes
\* back as its nodes in the order of the Vec.
parser_topological_sort_lenient(wf, hash_order) ==
    LET r == (CHOOSE t \in ExecutorSorts : t[1] = wf /\ t[2] = hash_order)[3]
    IN  IF r.kind \in {"Ok", "Panic"} THEN r ELSE OkOrder(wf.nodes)

parser_topological_sort(wf, hash_order) ==
    (CHOOSE t \in ExecutorSorts : t[1] = wf /\ t[2] = hash_order)[3]

(***************************************************************************)
(* ExecutionState, and the ExecutionResult / WorkflowError a call returns. *)
(* attempt is the execute invocation that produced the value.              *)
(***************************************************************************)
ExecutionStates ==
    {"Pending", "Running", "Paused", "Completed", "Failed", "Cancelled"}

NoReturn ==
    [kind |-> "None", state |-> "None", error |-> "None",
     nodes_executed |-> -1, attempt |-> 0]

OkResult(state, error, nodes_executed, attempt) ==
    [kind |-> "Ok", state |-> state, error |-> error,
     nodes_executed |-> nodes_executed, attempt |-> attempt]

ErrResult(error, attempt) ==
    [kind |-> "Err", state |-> "None", error |-> error,
     nodes_executed |-> -1, attempt |-> attempt]

(***************************************************************************)
(* The variable map: format!("node_{}", id) is the key of a node's output; *)
(* the output a handler returns is known by its node and by the call that  *)
(* produced it.                                                            *)
(***************************************************************************)
NodeKey(node_id) == <<"node", node_id>>

NodeOutput(node_id, c) == [node |-> node_id, by |-> c]

EmptyMap == [k \in {} |-> 0]

Insert(map, k, v) == [x \in DOMAIN map \cup {k} |-> IF x = k THEN v ELSE map[x]]

(***************************************************************************)
(* WorkflowExecutor::collect_node_inputs: for each edge into the node, in  *)
(* edge order, the source's stored output goes under the edge's            *)
(* source_handle.                                                          *)
(***************************************************************************)
RECURSIVE collect_from(_, _, _, _, _)
collect_from(edges, node_id, map, i, inputs) ==
    IF i > Len(edges) THEN inputs
    ELSE IF edges[i].target = node_id /\ NodeKey(edges[i].source) \in DOMAIN map
    THEN collect_from(edges, node_id, map, i + 1,
             Insert(inputs, edges[i].source_handle, map[NodeKey(edges[i].source)]))
    ELSE collect_from(edges, node_id, map, i + 1, inputs)

collect_node_inputs(node_id, map, wf) ==
    collect_from(wf.edges, node_id, map, 1, EmptyMap)

(***************************************************************************)
(* WorkflowExecutor::update_context_state, on the registry.                *)
(***************************************************************************)
\* A faulty variant of update_context_state: an id that is not registered gets an entry.
update_context_state_upsert(contexts, execution_id, state) ==
    [e \in DOMAIN contexts \cup {execution_id} |->
        IF e = execution_id
        THEN [state |-> state,
              variables |-> IF e \in DOMAIN contexts THEN contexts[e].variables ELSE 0]
        ELSE contexts[e]]

\* A faulty variant of update_context_state: the update to Running is not recorded.
update_context_state_but_running(contexts, execution_id, state) ==
    IF execution_id \in DOMAIN contexts /\ state # "Running"
    THEN [contexts EXCEPT ![execution_id].state = state]
    ELSE contexts

update_context_state(contexts, execution_id, state) ==
    IF execution_id \in DOMAIN contexts
    THEN [contexts EXCEPT ![execution_id].state = state]
    ELSE contexts

\* contexts.insert(execution_id, ctx) in execute.
\* A faulty variant: the new entry replaces the whole registry.
register_alone(contexts, execution_id, ctx) == [e \in {execution_id} |-> ctx]

register(contexts, execution_id, ctx) ==
    [e \in DOMAIN contexts \cup {execution_id} |->
        IF e = execution_id THEN ctx ELSE contexts[e]]

(***************************************************************************)
(* A call and where it stands.  pc:                                        *)
(*   sort      registered (or context fetched), before topological_sort    *)
(*   dispatch  before execute_node of order[index]                         *)
(*   handler   inputs collected, the node's handler is running             *)
(*   finish    the loop is over, before the update to Completed            *)
(*   backoff   execute_with_retry sleeps between two attempts              *)
(*   returned  the call has returned result                                *)
(*   spawned   trigger_webhook has spawned the task, execute has not begun *)
(* dispatched and stored list the nodes the call's current run handed to   *)
(* execute_node and stored an output for; handler_result is the outcome of *)
(* the last handler that returned; delays lists, in milliseconds, the      *)
(* sleeps of execute_with_retry.  initial is the variable map of the       *)
(* ExecutionContext handed to execute; returned_id is the execution id     *)
(* trigger_webhook returned to its caller.                                 *)
(***************************************************************************)
NewCall(op, execution_id, max_retries, failed_node_id) ==
    [op |-> op, pc |-> "sort", execution_id |-> execution_id,
     initial |-> EmptyMap, returned_id |-> 0,
     ctx_variables |-> 0, order |-> <<>>, index |-> 0, first |-> 0,
     input |-> EmptyMap, dispatched |-> <<>>, stored |-> <<>>,
     handler_result |-> "None",
     max_retries |-> max_retries, attempts |-> 0, invocations |-> 0,
     delays |-> <<>>, last_error |-> NoReturn,
     failed_node_id |-> failed_node_id, result |-> NoReturn]

\* The condition of execute_with_retry's while loop.
\* A faulty variant: the loop stops one attempt early.
retry_allowed_off_by_one(attempts, max_retries) == attempts < max_retries

retry_allowed(attempts, max_retries) == attempts <= max_retries

\* The sleep before the next attempt, in milliseconds, attempts having failed.
\* A faulty variant: the exponent is the number of failed attempts.
backoff_delay_doubled(attempts) == 100 * 2^attempts

backoff_delay(attempts) == 100 * 2^(attempts - 1)

\* What becomes of a call when its execute (or resume_from_failure) returns r.
\* In execute_with_retry an Ok is returned at once; an Err is counted and
\* kept as last_error, and the loop sleeps backoff_delay and goes on, or ends
\* with it.
execute_returns(call, r) ==
    IF call.op # "execute_with_retry" \/ r.kind = "Ok"
    THEN [call EXCEPT !.pc = "returned", !.result = r]
    ELSE LET failed == [call EXCEPT !.attempts = @ + 1, !.last_error = r]
         IN  IF retry_allowed(failed.attempts, failed.max_retries)
             THEN [failed EXCEPT !.pc = "backoff",
                                 !.delays = Append(@, backoff_delay(failed.attempts))]
             ELSE [failed EXCEPT !.pc = "returned", !.result = failed.last_error]

\* calls with record rec at place c (a new place when c = Len(calls) + 1).
SetCall(c, rec) ==
    [i \in 1..(IF c > Len(calls) THEN c ELSE Len(calls)) |->
        IF i = c THEN rec ELSE calls[i]]

Position(seq, x) == Min({i \in DOMAIN seq : seq[i] = x})

(***************************************************************************)
(* The head of execute (executor.rs 36-42): from_context wraps the         *)
(* variables of the caller's context, which is Pending, in a new Arc, and  *)
(* the context is inserted in the registry under its id.                   *)
(***************************************************************************)
execute_begins(c, rec) ==
    /\ variables' = Append(variables, rec.initial)
    /\ execution_contexts' =
           register(execution_contexts, rec.execution_id,
                    [state |-> "Pending", variables |-> Len(variables) + 1])
    /\ calls' = SetCall(c, [rec EXCEPT !.pc = "sort",
                                       !.ctx_variables = Len(variables) + 1,
                                       !.invocations = @ + 1,
                                       !.order = <<>>, !.index = 0, !.first = 0,
                                       !.input = EmptyMap,
                                       !.dispatched = <<>>, !.stored = <<>>,
                                       !.handler_result = "None"])

(***************************************************************************)
(* execute(workflow, ctx), up to the registration of its context.          *)
(***************************************************************************)
CallExecute(execution_id) ==
    /\ Len(calls) < MaxCalls
    /\ execute_begins(Len(calls) + 1, NewCall("execute", execution_id, 0, NilUuid))
    /\ UNCHANGED <<parserVars, schedulerVars, validatorVars, cronVars>>

(***************************************************************************)
(* WorkflowScheduler::trigger_webhook(workflow, payload): a new execution  *)
(* id (Uuid::new_v4(), an id no call has used), a Pending context whose    *)
(* variables hold the payload, a task spawned to run execute on it, and    *)
(* Ok(execution_id) returned.  The spawned task logs what execute returns. *)
(***************************************************************************)
Payloads == {"delivery"}

WebhookPayloadKey == <<"webhook_payload">>

\* A faulty variant of webhook_variables: the payload is not put in the map.
webhook_variables_empty(payload) == EmptyMap

webhook_variables(payload) == Insert(EmptyMap, WebhookPayloadKey, [payload |-> payload])

new_v4 ==
    {e \in ExecutionIds :
        /\ e \notin DOMAIN execution_contexts
        /\ \A c \in DOMAIN calls : calls[c].execution_id # e
        /\ \A d \in 1..(e - 1) :
               d \in DOMAIN execution_contexts
                   \/ \E c \in DOMAIN calls : calls[c].execution_id = d}

TriggerWebhook(payload) ==
    /\ Len(calls) < MaxCalls
    /\ \E execution_id \in new_v4 :
           calls' = Append(calls,
               [NewCall("trigger_webhook", execution_id, 0, NilUuid)
                   EXCEPT !.pc = "spawned",
                          !.initial = webhook_variables(payload),
                          !.returned_id = execution_id])
    /\ UNCHANGED <<execution_contexts, variables>>
    /\ UNCHANGED <<parserVars, schedulerVars, validatorVars, cronVars>>

\* The spawned task starts to run: executor.execute(&workflow_clone, ctx).
SpawnedExecute(c) ==
    /\ calls[c].pc = "spawned"
    /\ execute_begins(c, calls[c])
    /\ UNCHANGED <<parserVars, schedulerVars, validatorVars, cronVars>>

(***************************************************************************)
(* execute_with_retry(workflow, ctx, max_retries), up to the registration  *)
(* of the first attempt's context.                                         *)
(***************************************************************************)
CallExecuteWithRetry(execution_id, max_retries) ==
    /\ Len(calls) < MaxCalls
    /\ LET call == NewCall("execute_with_retry", execution_id, max_retries, NilUuid)
       IN  IF retry_allowed(0, max_retries)
           THEN execute_begins(Len(calls) + 1, call)
           ELSE /\ calls' = Append(calls,
                        [call EXCEPT !.pc = "returned",
                                     !.result = ErrResult("Max retries exceeded", 0)])
                /\ UNCHANGED <<execution_contexts, variables>>
    /\ UNCHANGED <<parserVars, schedulerVars, validatorVars, cronVars>>

\* The backoff sleep is over: the loop calls execute again with ctx.clone().
RetryAfterBackoff(c) ==
    /\ calls[c].pc = "backoff"
    /\ execute_begins(c, calls[c])
    /\ UNCHANGED <<parserVars, schedulerVars, validatorVars, cronVars>>

(***************************************************************************)
(* resume_from_failure(workflow, execution_id, failed_node_id), up to      *)
(* get_context: the call works on a clone of the registered context, which *)
(* shares its variable map.                                                *)
(***************************************************************************)
\* A faulty variant of CallResumeFromFailure: an execution id that is not
\* registered is registered, as Failed, before the error is returned.
CallResumeFromFailureRegistering(execution_id, failed_node_id) ==
    /\ Len(calls) < MaxCalls
    /\ LET call == NewCall("resume_from_failure", execution_id, 0, failed_node_id)
       IN  IF execution_id \notin DOMAIN execution_contexts
           THEN /\ calls' = Append(calls,
                        [call EXCEPT !.pc = "returned",
                                     !.result = ErrResult("NodeNotFound", 0)])
                /\ variables' = Append(variables, EmptyMap)
                /\ execution_contexts' =
                       register(execution_contexts, execution_id,
                                [state |-> "Failed", variables |-> Len(variables) + 1])
           ELSE /\ calls' = Append(calls,
                        [call EXCEPT !.ctx_variables =
                                         execution_contexts[execution_id].variables])
                /\ UNCHANGED <<execution_contexts, variables>>
    /\ UNCHANGED <<parserVars, schedulerVars, validatorVars, cronVars>>

CallResumeFromFailure(execution_id, failed_node_id) ==
    /\ Len(calls) < MaxCalls
    /\ LET call == NewCall("resume_from_failure", execution_id, 0, failed_node_id)
       IN  IF execution_id \notin DOMAIN execution_contexts
           THEN calls' = Append(calls,
                    [call EXCEPT !.pc = "returned",
                                 !.result = ErrResult("NodeNotFound", 0)])
           ELSE calls' = Append(calls,
                    [call EXCEPT !.ctx_variables =
                                     execution_contexts[execution_id].variables])
    /\ UNCHANGED <<execution_contexts, variables>>
    /\ UNCHANGED <<parserVars, schedulerVars, validatorVars, cronVars>>

(***************************************************************************)
(* topological_sort and the update to Running (executor.rs 44-53 and       *)
(* 355-368).  An error of the sort returns ValidationFailed before any     *)
(* update; resume_from_failure also looks failed_node_id up in the order.  *)
(***************************************************************************)
Sort(c) ==
    /\ calls[c].pc = "sort"
    /\ \E hash_order \in HashOrders(Range(workflow.nodes)) :
        LET call == calls[c]
            r == parser_topological_sort(workflow, hash_order)
            resume == call.op = "resume_from_failure"
        IN  IF r.kind = "Panic"
            THEN /\ calls' = SetCall(c, [call EXCEPT !.pc = "panicked"])
                 /\ UNCHANGED execution_contexts
            ELSE IF r.kind # "Ok"
            THEN /\ calls' = SetCall(c, execute_returns(call,
                                 ErrResult("ValidationFailed", call.invocations)))
                 /\ UNCHANGED execution_contexts
            ELSE IF resume /\ call.failed_node_id \notin Range(r.order)
            THEN /\ calls' = SetCall(c, execute_returns(call,
                                 ErrResult("NodeNotFound", call.invocations)))
                 /\ UNCHANGED execution_contexts
            ELSE LET first == IF resume THEN Position(r.order, call.failed_node_id)
                              ELSE 1
                 IN  /\ execution_contexts' =
                            update_context_state(execution_contexts,
                                                 call.execution_id, "Running")
                     /\ calls' = SetCall(c,
                            [call EXCEPT !.order = r.order,
                                         !.index = first, !.first = first,
                                         !.pc = IF first > Len(r.order)
                                                THEN "finish" ELSE "dispatch"])
    /\ UNCHANGED variables
    /\ UNCHANGED <<parserVars, schedulerVars, validatorVars, cronVars>>

(***************************************************************************)
(* The loop's next node: find it in workflow.nodes, and execute_node up to *)
(* collect_node_inputs (read lock on the variable map).                    *)
(***************************************************************************)
\* A faulty variant of next_node: the loop walks the order from its end.
next_node_backwards(call) == call.order[Len(call.order) + call.first - call.index]

next_node(call) == call.order[call.index]

Dispatch(c) ==
    /\ calls[c].pc = "dispatch"
    /\ LET call == calls[c]
           node_id == next_node(call)
       IN  IF node_id \notin Range(workflow.nodes)
           THEN calls' = SetCall(c, execute_returns(call,
                             ErrResult("NodeNotFound", call.invocations)))
           ELSE calls' = SetCall(c,
                    [call EXCEPT !.input = collect_node_inputs(
                                     node_id, variables[call.ctx_variables], workflow),
                                 !.dispatched = Append(@, node_id),
                                 !.pc = "handler"])
    /\ UNCHANGED <<execution_contexts, variables>>
    /\ UNCHANGED <<parserVars, schedulerVars, validatorVars, cronVars>>

(***************************************************************************)
(* The node's handler returns (executor.rs 63-83).  Ok: the output is      *)
(* inserted under node_<id> (write lock) and the loop goes on.  Err: the   *)
(* execution is marked Failed and the call returns Ok with a Failed        *)
(* result.  The handlers are the executor's external collaborators: their  *)
(* outcome is an input of the step.                                        *)
(***************************************************************************)
HandlerOutcomes == {"Ok", "Err"}

\* A faulty variant of store_output: the output is not written to the variable map.
store_output_nothing(maps, call, c) == maps

\* A faulty variant of store_output: every run writes to the first variable map.
store_output_first_map(maps, call, c) ==
    [maps EXCEPT ![1] =
        Insert(@, NodeKey(next_node(call)), NodeOutput(next_node(call), c))]

\* A faulty variant of store_output: the map is replaced by one that holds the
\* new output alone.
store_output_alone(maps, call, c) ==
    [maps EXCEPT ![call.ctx_variables] =
        Insert(EmptyMap, NodeKey(next_node(call)), NodeOutput(next_node(call), c))]

store_output(maps, call, c) ==
    [maps EXCEPT ![call.ctx_variables] =
        Insert(@, NodeKey(next_node(call)), NodeOutput(next_node(call), c))]

\* A faulty variant of after_handler: a failed node is skipped and the loop goes on.
after_handler_continue(call, outcome) ==
    [call EXCEPT !.stored = IF outcome = "Ok" THEN Append(@, next_node(call)) ELSE @,
                 !.index = @ + 1,
                 !.pc = IF call.index = Len(call.order) THEN "finish" ELSE "dispatch"]

after_handler(call, outcome) ==
    IF outcome = "Ok"
    THEN [call EXCEPT !.stored = Append(@, next_node(call)),
                      !.index = @ + 1,
                      !.pc = IF call.index = Len(call.order)
                             THEN "finish" ELSE "dispatch"]
    ELSE execute_returns(call,
             OkResult("Failed", "NodeExecutionFailed", -1, call.invocations))

HandlerReturns(c) ==
    /\ calls[c].pc = "handler"
    /\ \E outcome \in HandlerOutcomes :
        /\ calls' = SetCall(c, [after_handler(calls[c], outcome)
                                   EXCEPT !.handler_result = outcome])
        /\ variables' = IF outcome = "Ok"
                        THEN store_output(variables, calls[c], c)
                        ELSE variables
        /\ execution_contexts' =
               IF outcome = "Ok" THEN execution_contexts
               ELSE update_context_state(execution_contexts,
                                         calls[c].execution_id, "Failed")
    /\ UNCHANGED <<parserVars, schedulerVars, validatorVars, cronVars>>

(***************************************************************************)
(* After the last node: the update to Completed and the success result,    *)
(* whose nodes_executed is node_count.                                     *)
(***************************************************************************)
\* A faulty variant of node_count: resume_from_failure reports the whole order's length.
node_count_whole(call) == Len(call.order)

node_count(call) == Len(call.order) - (call.first - 1)

Finish(c) ==
    /\ calls[c].pc = "finish"
    /\ execution_contexts' =
           update_context_state(execution_contexts, calls[c].execution_id, "Completed")
    /\ calls' = SetCall(c, execute_returns(calls[c],
           OkResult("Completed", "None", node_count(calls[c]), calls[c].invocations)))
    /\ UNCHANGED variables
    /\ UNCHANGED <<parserVars, schedulerVars, validatorVars, cronVars>>

(***************************************************************************)
(* pause, resume, cancel: update_context_state and Ok(()).                 *)
(***************************************************************************)
\* What pause, resume and cancel return: Ok(()), whatever the registry holds.
control_result(contexts, execution_id) == "Ok"

Pause(execution_id) ==
    /\ execution_contexts' =
           update_context_state(execution_contexts, execution_id, "Paused")
    /\ UNCHANGED <<variables, calls>>
    /\ UNCHANGED <<parserVars, schedulerVars, validatorVars, cronVars>>

Resume(execution_id) ==
    /\ execution_contexts' =
           update_context_state(execution_contexts, execution_id, "Running")
    /\ UNCHANGED <<variables, calls>>
    /\ UNCHANGED <<parserVars, schedulerVars, validatorVars, cronVars>>

Cancel(execution_id) ==
    /\ execution_contexts' =
           update_context_state(execution_contexts, execution_id, "Cancelled")
    /\ UNCHANGED <<variables, calls>>
    /\ UNCHANGED <<parserVars, schedulerVars, validatorVars, cronVars>>

(***************************************************************************)
(* The executor: calls and control operations in any interleaving, on one  *)
(* workflow.                                                               *)
(***************************************************************************)
\* Execution ids are interchangeable Uuids: a call uses an id some earlier
\* call used, or the least id none has used.
UsableIds ==
    {e \in ExecutionIds :
        \A d \in 1..(e - 1) : \E c \in DOMAIN calls : calls[c].execution_id = d}

FailedNodeIds == UNION {Range(wf.nodes) : wf \in ExecutorWorkflows}

ExecutorInit ==
    /\ execution_contexts = EmptyMap
    /\ variables = <<>>
    /\ calls = <<>>
    /\ schedules = EmptyMap
    /\ running = FALSE
    /\ loops = <<>>
    /\ scheduler_call =
           [op |-> "None", workflow_id |-> 0, result |-> "None", schedules |-> EmptyMap]
    /\ validated_workflow = [nodes |-> <<>>, edges |-> <<>>]
    /\ validate_result =
           [kind |-> "None", valid |-> FALSE, errors |-> <<>>, warnings |-> <<>>]
    /\ reachability_result = [kind |-> "None", nodes |-> <<>>]
    /\ type_check = [source_type |-> "Any", target_type |-> "Any",
                     compatible |-> "None", reverse |-> "None"]
    /\ cron_check = [op |-> "None", result |-> "None"]

Init ==
    /\ workflow \in ExecutorWorkflows
    /\ parse_result = NoResult
    /\ sort_result = NoResult
    /\ ExecutorInit

Next ==
    \/ \E e \in UsableIds : CallExecute(e)
    \/ \E e \in UsableIds, m \in 0..MaxRetries : CallExecuteWithRetry(e, m)
    \/ \E e \in UsableIds, n \in FailedNodeIds : CallResumeFromFailure(e, n)
    \/ \E c \in DOMAIN calls : Sort(c)
    \/ \E c \in DOMAIN calls : Dispatch(c)
    \/ \E c \in DOMAIN calls : HandlerReturns(c)
    \/ \E c \in DOMAIN calls : Finish(c)
    \/ \E c \in DOMAIN calls : RetryAfterBackoff(c)
    \/ \E payload \in Payloads : TriggerWebhook(payload)
    \/ \E c \in DOMAIN calls : SpawnedExecute(c)
    \/ \E e \in ExecutionIds : Pause(e)
    \/ \E e \in ExecutionIds : Resume(e)
    \/ \E e \in ExecutionIds : Cancel(e)

Spec == Init /\ [][Next]_vars

\* The tasks that run the calls are scheduled by the runtime, and the
\* handlers, the executor's own placeholders, return: a call that can take
\* its next step takes it.
Progress(c) ==
    \/ SpawnedExecute(c)
    \/ Sort(c)
    \/ Dispatch(c)
    \/ HandlerReturns(c)
    \/ Finish(c)
    \/ RetryAfterBackoff(c)

FairSpec == Spec /\ \A c \in 1..MaxCalls : WF_vars(c \in DOMAIN calls /\ Progress(c))

(***************************************************************************)
(* execute_with_retry on its own: one call, with up to MaxBackoffRetries   *)
(* retries, and nothing else touching the executor.                        *)
(***************************************************************************)
MaxBackoffRetries == 3  \* largest max_retries of the call on its own

RetryCall(execution_id, max_retries) ==
    /\ calls = <<>>
    /\ CallExecuteWithRetry(execution_id, max_retries)

RetryNext ==
    \/ \E e \in UsableIds, m \in 0..MaxBackoffRetries : RetryCall(e, m)
    \/ \E c \in DOMAIN calls : Sort(c)
    \/ \E c \in DOMAIN calls : Dispatch(c)
    \/ \E c \in DOMAIN calls : HandlerReturns(c)
    \/ \E c \in DOMAIN calls : Finish(c)
    \/ \E c \in DOMAIN calls : RetryAfterBackoff(c)

SpecRetry == Init /\ [][RetryNext]_vars

(***************************************************************************)
(* The executor's calls with no pause, resume or cancel beside them, the   *)
(* tasks that run them being scheduled and the handlers returning.         *)
(***************************************************************************)
RunsNext ==
    \/ \E e \in UsableIds : CallExecute(e)
    \/ \E e \in UsableIds, m \in 0..MaxRetries : CallExecuteWithRetry(e, m)
    \/ \E e \in UsableIds, n \in FailedNodeIds : CallResumeFromFailure(e, n)
    \/ \E c \in DOMAIN calls : Sort(c)
    \/ \E c \in DOMAIN calls : Dispatch(c)
    \/ \E c \in DOMAIN calls : HandlerReturns(c)
    \/ \E c \in DOMAIN calls : Finish(c)
    \/ \E c \in DOMAIN calls : RetryAfterBackoff(c)
    \/ \E payload \in Payloads : TriggerWebhook(payload)
    \/ \E c \in DOMAIN calls : SpawnedExecute(c)

FairRuns ==
    /\ Init
    /\ [][RunsNext]_vars
    /\ \A c \in 1..MaxCalls : WF_vars(c \in DOMAIN calls /\ Progress(c))

\* The parser alone: the executor has made no call.
ParserInit ==
    /\ workflow \in ParserWorkflows
    /\ parse_result = NoResult
    /\ sort_result = NoResult
    /\ execution_contexts = EmptyMap
    /\ variables = <<>>
    /\ calls = <<>>
    /\ schedules = EmptyMap
    /\ running = FALSE
    /\ loops = <<>>
    /\ scheduler_call =
           [op |-> "None", workflow_id |-> 0, result |-> "None", schedules |-> EmptyMap]
    /\ validated_workflow = [nodes |-> <<>>, edges |-> <<>>]
    /\ validate_result =
           [kind |-> "None", valid |-> FALSE, errors |-> <<>>, warnings |-> <<>>]
    /\ reachability_result = [kind |-> "None", nodes |-> <<>>]
    /\ type_check = [source_type |-> "Any", target_type |-> "Any",
                     compatible |-> "None", reverse |-> "None"]
    /\ cron_check = [op |-> "None", result |-> "None"]

SpecParser == ParserInit /\ [][ParserNext]_vars

(***************************************************************************)
(* Vocabulary of the parser's claims, stated on the graph itself.          *)
(***************************************************************************)
WellFormed(wf) ==
    /\ Len(wf.nodes) > 0
    /\ \A i, j \in DOMAIN wf.nodes : i # j => wf.nodes[i] # wf.nodes[j]
    /\ \A i \in DOMAIN wf.edges :
           wf.edges[i].source \in NodeSet(wf) /\ wf.edges[i].target \in NodeSet(wf)

Successors(wf, S) ==
    {wf.edges[i].target : i \in {j \in DOMAIN wf.edges : wf.edges[j].source \in S}}

RECURSIVE ReachableFrom(_, _, _)
ReachableFrom(wf, S, k) ==
    IF k = 0 THEN S ELSE ReachableFrom(wf, S \cup Successors(wf, S), k - 1)

OnCycle(wf, n) == n \in ReachableFrom(wf, Successors(wf, {n}), Len(wf.edges))

HasCycle(wf) == \E i \in DOMAIN wf.edges : OnCycle(wf, wf.edges[i].source)

EveryNodeHasIncoming(wf) ==
    \A n \in NodeSet(wf) : \E i \in DOMAIN wf.edges : wf.edges[i].target = n

Occurrences(seq, x) == Cardinality({i \in DOMAIN seq : seq[i] = x})

Before(seq, a, b) == \E i, j \in DOMAIN seq : i < j /\ seq[i] = a /\ seq[j] = b

HasDuplicateEdge(wf) ==
    \E i, j \in DOMAIN wf.edges :
        /\ i # j
        /\ wf.edges[i].source = wf.edges[j].source
        /\ wf.edges[i].target = wf.edges[j].target

(***************************************************************************)
(* C3: whenever topological_sort succeeds, the order it returns holds      *)
(* every node id exactly once (and nothing else), and for every edge       *)
(* (s -> t) s stands before t, duplicate edges included.                   *)
(***************************************************************************)
C3_TopologicalOrderRespectsEdges ==
    sort_result.kind = "Ok" =>
        /\ Len(sort_result.order) = Len(workflow.nodes)
        /\ Range(sort_result.order) = NodeSet(workflow)
        /\ \A i \in DOMAIN workflow.nodes :
               Occurrences(sort_result.order, workflow.nodes[i]) = 1
        /\ \A i \in DOMAIN workflow.edges :
               Before(sort_result.order,
                      workflow.edges[i].source, workflow.edges[i].target)

C3_Witness ==
    /\ sort_result.kind = "Ok"
    /\ Len(workflow.nodes) = MaxNodes
    /\ HasDuplicateEdge(workflow)

(***************************************************************************)
(* C4, as claimed: on a well-formed workflow with a cycle, parse fails     *)
(* with CycleDetected and topological_sort fails with CycleDetected.       *)
(***************************************************************************)
C4_CycleAlwaysCycleDetected ==
    (WellFormed(workflow) /\ HasCycle(workflow)) =>
        /\ parse_result # NoResult => parse_result.kind = "CycleDetected"
        /\ sort_result # NoResult => sort_result.kind = "CycleDetected"

(***************************************************************************)
(* C4, amended: on a well-formed workflow with a cycle, topological_sort   *)
(* fails with CycleDetected, and parse fails: with NoStartingNode when     *)
(* every node has an incoming edge, with CycleDetected otherwise.          *)
(***************************************************************************)
C4_CycleRejected ==
    (WellFormed(workflow) /\ HasCycle(workflow)) =>
        /\ parse_result # NoResult =>
               parse_result.kind = IF EveryNodeHasIncoming(workflow)
                                   THEN "NoStartingNode" ELSE "CycleDetected"
        /\ sort_result # NoResult => sort_result.kind = "CycleDetected"

C4_Witness ==
    /\ WellFormed(workflow) /\ HasCycle(workflow)
    /\ ~EveryNodeHasIncoming(workflow)
    /\ parse_result.kind = "CycleDetected"
    /\ sort_result.kind = "CycleDetected"

(***************************************************************************)
(* C5: on a non-empty acyclic workflow with unique node ids and no         *)
(* dangling edge, parse succeeds and topological_sort succeeds with as     *)
(* many ids as the workflow has nodes.                                     *)
(***************************************************************************)
C5_AcyclicAccepted ==
    (WellFormed(workflow) /\ ~HasCycle(workflow)) =>
        /\ parse_result # NoResult => parse_result.kind = "Ok"
        /\ sort_result # NoResult =>
               /\ sort_result.kind = "Ok"
               /\ Len(sort_result.order) = Len(workflow.nodes)

C5_Witness ==
    /\ WellFormed(workflow) /\ ~HasCycle(workflow)
    /\ HasDuplicateEdge(workflow)
    /\ parse_result.kind = "Ok"
    /\ sort_result.kind = "Ok"

(***************************************************************************)
(* C16: parse returns the error of the first gate that fails, the gates    *)
(* taken in the order empty node list, duplicate node id, dangling edge    *)
(* endpoint, no starting node, cycle; for a dangling edge it is the first  *)
(* offending edge of the list, InvalidEdgeSource with that edge's source   *)
(* if the source is missing and InvalidEdgeTarget with its target          *)
(* otherwise; parse returns Ok only when no gate fails.                    *)
(***************************************************************************)
HasDuplicateNode(wf) ==
    \E i, j \in DOMAIN wf.nodes : i # j /\ wf.nodes[i] = wf.nodes[j]

Dangling(wf, i) ==
    wf.edges[i].source \notin NodeSet(wf) \/ wf.edges[i].target \notin NodeSet(wf)

FirstDangling(wf) == Min({i \in DOMAIN wf.edges : Dangling(wf, i)})

C16_FirstFailingGateWins ==
    parse_result # NoResult =>
        IF Len(workflow.nodes) = 0
        THEN parse_result.kind = "EmptyWorkflow"
        ELSE IF HasDuplicateNode(workflow)
        THEN parse_result.kind = "DuplicateNodeId"
        ELSE IF \E i \in DOMAIN workflow.edges : Dangling(workflow, i)
        THEN LET e == workflow.edges[FirstDangling(workflow)]
             IN  IF e.source \notin NodeSet(workflow)
                 THEN parse_result = Err("InvalidEdgeSource", e.source)
                 ELSE parse_result = Err("InvalidEdgeTarget", e.target)
        ELSE IF EveryNodeHasIncoming(workflow)
        THEN parse_result.kind = "NoStartingNode"
        ELSE IF HasCycle(workflow)
        THEN parse_result.kind = "CycleDetected"
        ELSE parse_result.kind = "Ok"

\* The first offending edge lacks both its endpoints and a later edge lacks
\* only its target; every node has an incoming edge as well.
C16_Witness ==
    /\ parse_result.kind = "InvalidEdgeSource"
    /\ ~HasDuplicateNode(workflow)
    /\ Len(workflow.edges) >= 2
    /\ LET e == workflow.edges[FirstDangling(workflow)]
       IN  e.source \notin NodeSet(workflow) /\ e.target \notin NodeSet(workflow)
    /\ \E i \in DOMAIN workflow.edges :
           /\ i > FirstDangling(workflow)
           /\ workflow.edges[i].source \in NodeSet(workflow)
           /\ workflow.edges[i].target \notin NodeSet(workflow)

(***************************************************************************)
(* Vocabulary of the executor's claims.                                    *)
(***************************************************************************)
TerminalStates == {"Completed", "Failed", "Cancelled"}

IsExecuteRun(call) == call.op \in {"execute", "execute_with_retry"}

NoRepeats(seq) == \A i, j \in DOMAIN seq : i # j => seq[i] # seq[j]

\* The call at place c took a step.
Stepped(c) == c \in DOMAIN calls /\ calls'[c] # calls[c]

\* The keys of map m2 whose entry is new or differs from m1's.
Written(m1, m2) ==
    {k \in DOMAIN m2 : k \notin DOMAIN m1 \/ m2[k] # m1[k]}

(***************************************************************************)
(* C1, as claimed: once the recorded state of a registered execution is    *)
(* Completed, Failed or Cancelled, no step changes it.                     *)
(***************************************************************************)
C1_TerminalStatesFinal ==
    [][\A e \in DOMAIN execution_contexts :
          execution_contexts[e].state \in TerminalStates =>
              execution_contexts'[e].state = execution_contexts[e].state]_vars

(***************************************************************************)
(* C2: in an execute run the nodes dispatched so far are a prefix of the   *)
(* order its topological_sort call returned, none twice, and when a node   *)
(* is dispatched every source of an edge into it was dispatched earlier    *)
(* and has its output in the run's variable map.                           *)
(***************************************************************************)
C2_DispatchInTopologicalOrder ==
    \A c \in DOMAIN calls :
        LET call == calls[c]
        IN  IsExecuteRun(call) =>
            /\ Len(call.dispatched) <= Len(call.order)
            /\ call.dispatched = SubSeq(call.order, 1, Len(call.dispatched))
            /\ NoRepeats(call.dispatched)
            /\ \A k \in DOMAIN call.dispatched, i \in DOMAIN workflow.edges :
                   workflow.edges[i].target = call.dispatched[k] =>
                       /\ \E j \in 1..(k - 1) :
                              call.dispatched[j] = workflow.edges[i].source
                       /\ NodeKey(workflow.edges[i].source)
                              \in DOMAIN variables[call.ctx_variables]

C2_Witness ==
    \E c \in DOMAIN calls :
        /\ calls[c].op = "execute"
        /\ workflow = JoinWorkflow
        /\ calls[c].pc = "handler"
        /\ calls[c].dispatched = <<2, 1, 3>>

(***************************************************************************)
(* C6: when a node handler fails in an execute run, that step marks the    *)
(* execution Failed, writes no output and returns Ok with a result whose   *)
(* state is Failed, whose error is present and whose output is absent; a   *)
(* call that has returned takes no further step, and every output written  *)
(* is written by a call whose handler was running.                         *)
(***************************************************************************)
C6_NodeFailureFailsFast ==
    [][/\ \A c \in DOMAIN calls :
            (/\ IsExecuteRun(calls[c])
             /\ calls[c].pc = "handler"
             /\ Stepped(c)
             /\ calls'[c].handler_result = "Err") =>
                /\ execution_contexts'[calls[c].execution_id].state = "Failed"
                /\ variables' = variables
                /\ calls'[c].pc = "returned"
                /\ calls'[c].dispatched = calls[c].dispatched
                /\ calls'[c].stored = calls[c].stored
                /\ calls'[c].result.kind = "Ok"
                /\ calls'[c].result.state = "Failed"
                /\ calls'[c].result.error \notin {"None", ""}
                /\ calls'[c].result.nodes_executed = -1
       /\ \A c \in DOMAIN calls :
            calls[c].pc = "returned" => calls'[c] = calls[c]
       /\ \A m \in DOMAIN variables :
            \A k \in Written(variables[m], variables'[m]) :
                calls[variables'[m][k].by].pc = "handler"]_vars

C6_Witness ==
    \E c \in DOMAIN calls :
        /\ calls[c].op = "execute"
        /\ calls[c].pc = "returned"
        /\ calls[c].handler_result = "Err"
        /\ calls[c].result.state = "Failed"
        /\ Len(calls[c].dispatched) = 2
        /\ Len(calls[c].order) = 3
        /\ execution_contexts[calls[c].execution_id].state = "Failed"

(***************************************************************************)
(* C7: an execute run on an acyclic workflow in which no handler failed    *)
(* returns Ok with state Completed, no error and nodes_executed equal to   *)
(* the node count; the step that returns sets the registered state to      *)
(* Completed, and the run's variable map holds node_<id> for every node.   *)
(***************************************************************************)
C7_SuccessfulRunCompletes ==
    [][\A c \in DOMAIN calls :
          (/\ IsExecuteRun(calls[c])
           /\ ~HasCycle(workflow)
           /\ calls[c].pc # "returned"
           /\ calls'[c].pc = "returned"
           /\ calls'[c].handler_result # "Err") =>
              /\ calls'[c].result.kind = "Ok"
              /\ calls'[c].result.state = "Completed"
              /\ calls'[c].result.error = "None"
              /\ calls'[c].result.nodes_executed = Len(workflow.nodes)
              /\ execution_contexts'[calls[c].execution_id].state = "Completed"
              /\ \A n \in NodeSet(workflow) :
                     NodeKey(n) \in DOMAIN variables'[calls[c].ctx_variables]]_vars

C7_Witness ==
    \E c \in DOMAIN calls :
        /\ calls[c].op = "execute"
        /\ calls[c].pc = "returned"
        /\ calls[c].result.state = "Completed"
        /\ calls[c].result.nodes_executed = 3
        /\ execution_contexts[calls[c].execution_id].state = "Completed"
        /\ execution_contexts[calls[c].execution_id].variables = calls[c].ctx_variables

(***************************************************************************)
(* C8: a resume_from_failure call dispatches the nodes of the order its    *)
(* topological_sort call returned from failed_node_id on, in that order;   *)
(* it works on the variable map of the registered context, writes only     *)
(* the outputs of the nodes it dispatched, reads as inputs the stored      *)
(* outputs, those of the nodes before failed_node_id being none of its     *)
(* own; a Completed result reports as nodes_executed the number of nodes   *)
(* from failed_node_id on.                                                 *)
(***************************************************************************)
ResumeInv(c) ==
    LET call == calls[c]
        n == Len(call.dispatched)
    IN  call.op = "resume_from_failure" /\ call.first > 0 =>
            /\ call.order[call.first] = call.failed_node_id
            /\ call.first + n - 1 <= Len(call.order)
            /\ call.dispatched = SubSeq(call.order, call.first, call.first + n - 1)
            /\ \A h \in DOMAIN call.input :
                   \A j \in 1..(call.first - 1) :
                       call.input[h].node = call.order[j] => call.input[h].by # c
            /\ (call.pc = "returned" /\ call.result.state = "Completed") =>
                   /\ call.dispatched =
                          SubSeq(call.order, call.first, Len(call.order))
                   /\ call.result.nodes_executed = Len(call.dispatched)

ControlFrame(execution_id, state) ==
    /\ DOMAIN execution_contexts' = DOMAIN execution_contexts
    /\ variables' = variables
    /\ calls' = calls
    /\ \A e \in DOMAIN execution_contexts :
           /\ execution_contexts'[e].variables = execution_contexts[e].variables
           /\ execution_contexts'[e].state =
                  IF e = execution_id THEN state ELSE execution_contexts[e].state
    /\ control_result(execution_contexts, execution_id) = "Ok"

C9_ControlChangesOnlyState ==
    [][\A e \in ExecutionIds :
          /\ Pause(e) => ControlFrame(e, "Paused")
          /\ Resume(e) => ControlFrame(e, "Running")
          /\ Cancel(e) => ControlFrame(e, "Cancelled")]_vars

C9_Witness ==
    /\ DOMAIN execution_contexts = {1}
    /\ execution_contexts[1].state = "Paused"
    /\ variables[execution_contexts[1].variables] # EmptyMap
    /\ \E c \in DOMAIN calls : calls[c].pc = "handler"

(***************************************************************************)
(* C10: execute_with_retry invokes execute at most max_retries + 1 times;  *)
(* an Ok it returns is the result of its last invocation, all earlier      *)
(* ones having failed; an Err is returned only after max_retries + 1       *)
(* invocations and is the error of the last one.                           *)
(***************************************************************************)
C10_RetryBound ==
    \A c \in DOMAIN calls :
        LET call == calls[c]
        IN  call.op = "execute_with_retry" =>
            /\ call.invocations <= call.max_retries + 1
            /\ call.invocations =
                   IF call.pc \in {"backoff", "returned"} /\ call.result.kind # "Ok"
                   THEN call.attempts ELSE call.attempts + 1
            /\ (call.pc = "returned" /\ call.result.kind = "Ok") =>
                   /\ call.result.attempt = call.invocations
                   /\ call.attempts = call.invocations - 1
            /\ (call.pc = "returned" /\ call.result.kind = "Err") =>
                   /\ call.invocations = call.max_retries + 1
                   /\ call.attempts = call.max_retries + 1
                   /\ call.result.attempt = call.invocations
                   /\ call.result.error = "ValidationFailed"

C10_Witness ==
    \E c \in DOMAIN calls :
        /\ calls[c].op = "execute_with_retry"
        /\ calls[c].max_retries = MaxRetries
        /\ calls[c].pc = "returned"
        /\ calls[c].result.kind = "Err"
        /\ calls[c].invocations = MaxRetries + 1

(***************************************************************************)
(* C11, as claimed: an attempt of execute_with_retry that ends because a   *)
(* node handler failed is followed by another invocation of execute as     *)
(* long as fewer than max_retries + 1 have been made, so a call that has   *)
(* returned after a handler failure has made max_retries + 1 invocations.  *)
(***************************************************************************)
C11_HandlerFailureRetried ==
    \A c \in DOMAIN calls :
        (/\ calls[c].op = "execute_with_retry"
         /\ calls[c].pc = "returned"
         /\ calls[c].handler_result = "Err") =>
            calls[c].invocations = calls[c].max_retries + 1

(***************************************************************************)
(* Vocabulary of C15.  WebhookStep: what a step does to the executions     *)
(* trigger_webhook spawned.  A new one has a newly generated id, which     *)
(* trigger_webhook has returned while nothing of the execution has         *)
(* happened yet (nothing registered, no map allocated); when the spawned   *)
(* task begins, the context is registered under that id, Pending, with a   *)
(* variable map that holds the payload under webhook_payload and nothing   *)
(* else; the returned id never changes, whatever the execution returns;    *)
(* when the execution returns Ok its state, Completed or Failed, is the    *)
(* registered one.                                                         *)
(***************************************************************************)
WebhookRun(c) == c \in DOMAIN calls /\ calls[c].op = "trigger_webhook"

WebhookStep ==
    \A c \in DOMAIN calls' :
        calls'[c].op = "trigger_webhook" =>
            LET id == calls'[c].execution_id
            IN  /\ calls'[c].returned_id = id
                /\ c \notin DOMAIN calls =>
                       /\ calls'[c].pc = "spawned"
                       /\ id \notin DOMAIN execution_contexts
                       /\ \A d \in DOMAIN calls : calls[d].execution_id # id
                       /\ execution_contexts' = execution_contexts
                       /\ variables' = variables
                /\ c \in DOMAIN calls =>
                       /\ calls[c].execution_id = id
                       /\ calls[c].returned_id = id
                /\ (c \in DOMAIN calls /\ calls[c].pc = "spawned"
                        /\ calls'[c].pc # "spawned") =>
                       /\ execution_contexts'[id].state = "Pending"
                       /\ execution_contexts'[id].variables = calls'[c].ctx_variables
                       /\ calls'[c].ctx_variables \notin DOMAIN variables
                       /\ \E payload \in Payloads :
                              variables'[calls'[c].ctx_variables] =
                                  [k \in {WebhookPayloadKey} |-> [payload |-> payload]]
                /\ (c \in DOMAIN calls /\ calls[c].pc # "returned"
                        /\ calls'[c].pc = "returned" /\ calls'[c].result.kind = "Ok") =>
                       /\ calls'[c].result.state \in {"Completed", "Failed"}
                       /\ execution_contexts'[id].state = calls'[c].result.state

WebhookDone(c) ==
    /\ WebhookRun(c)
    /\ calls[c].pc = "returned"
    /\ calls[c].result.kind = "Ok"
    /\ calls[c].execution_id \in DOMAIN execution_contexts

(***************************************************************************)
(* C15, as claimed: trigger_webhook returns a newly generated execution id *)
(* without waiting; the execution it spawns runs under that id with a      *)
(* Pending context whose map holds the payload under webhook_payload, is   *)
(* eventually registered and reaches Completed or Failed, and nothing of   *)
(* its outcome is returned to the caller of trigger_webhook.               *)
(***************************************************************************)
C15_WebhookRunAlwaysEnds ==
    /\ [][WebhookStep]_vars
    /\ \A c \in 1..MaxCalls : WebhookRun(c) ~> WebhookDone(c)

(***************************************************************************)
(* C15, amended: as above, except that the execution is sure to reach      *)
(* Completed or Failed only on a workflow topological_sort accepts; on a   *)
(* cyclic workflow the spawned execute returns an error, which is not      *)
(* returned to the caller either, and never marks its context Completed or *)
(* Failed.                                                                 *)
(***************************************************************************)
C15_WebhookFireAndForget ==
    /\ [][WebhookStep]_vars
    /\ \A c \in 1..MaxCalls :
           (WebhookRun(c) /\ ~HasCycle(workflow)) ~> WebhookDone(c)
    /\ [][\A c \in DOMAIN calls :
             (/\ WebhookRun(c) /\ HasCycle(workflow)
              /\ calls[c].pc # "spawned" /\ Stepped(c)) =>
                 /\ calls'[c].pc = "returned"
                 /\ calls'[c].result.kind = "Err"
                 /\ execution_contexts' = execution_contexts]_vars

\* A webhook execution of the join has completed: its context is registered
\* under the id trigger_webhook returned, and its map still holds the
\* payload.
C15_Witness ==
    \E c \in DOMAIN calls :
        /\ WebhookDone(c)
        /\ workflow = JoinWorkflow
        /\ calls[c].result.state = "Completed"
        /\ execution_contexts[calls[c].returned_id].state = "Completed"
        /\ execution_contexts[calls[c].returned_id].variables = calls[c].ctx_variables
        /\ WebhookPayloadKey \in DOMAIN variables[calls[c].ctx_variables]

(***************************************************************************)
(* WorkflowScheduler (scheduler.rs).  A cron expression and a cron field   *)
(* are strings, here sequences of one-character strings.                   *)
(***************************************************************************)
Digits == <<"0", "1", "2", "3", "4", "5", "6", "7", "8", "9">>

IsDigit(ch) == \E i \in DOMAIN Digits : Digits[i] = ch

DigitValue(ch) == (CHOOSE i \in DOMAIN Digits : Digits[i] = ch) - 1

\* The result of a failed str::parse::<u32>().
ParseError == -1

RECURSIVE digits_value(_, _)
digits_value(chars, acc) ==
    IF chars = <<>> THEN acc
    ELSE digits_value(Tail(chars), 10 * acc + DigitValue(Head(chars)))

\* str::parse::<u32>(): an optional "+", then one or more decimal digits.
\* (The strings of the model are too short to exceed u32::MAX.)
parse_u32(chars) ==
    LET body == IF chars # <<>> /\ Head(chars) = "+" THEN Tail(chars) ELSE chars
    IN  IF body = <<>> \/ \E i \in DOMAIN body : ~IsDigit(body[i])
        THEN ParseError
        ELSE digits_value(body, 0)

\* str::split(sep): the pieces between the separators, empty ones included.
RECURSIVE split(_, _)
split(chars, sep) ==
    IF \A i \in DOMAIN chars : chars[i] # sep THEN <<chars>>
    ELSE LET k == Min({i \in DOMAIN chars : chars[i] = sep})
         IN  <<SubSeq(chars, 1, k - 1)>> \o split(SubSeq(chars, k + 1, Len(chars)), sep)

\* str::split_whitespace(): the non-empty pieces between blanks.
split_whitespace(chars) == SelectSeq(split(chars, " "), LAMBDA part : part # <<>>)

contains(chars, ch) == \E i \in DOMAIN chars : chars[i] = ch

(***************************************************************************)
(* WorkflowScheduler::matches_cron_field.  The outcome is "true", "false", *)
(* or "panic" where value % step divides by zero.                          *)
(***************************************************************************)
bool(b) == IF b THEN "true" ELSE "false"

\* A faulty variant of matches_cron_field: a field that is not "*" never matches.
matches_cron_field_only_star(field, value) == bool(field = <<"*">>)

matches_cron_field(field, value) ==
    LET range_parts == split(field, "-")
        is_range == /\ contains(field, "-")
                    /\ Len(range_parts) = 2
                    /\ parse_u32(range_parts[1]) # ParseError
                    /\ parse_u32(range_parts[2]) # ParseError
        values == {parse_u32(split(field, ",")[i]) : i \in DOMAIN split(field, ",")}
                      \ {ParseError}
        step_parts == split(field, "/")
        is_step == /\ contains(field, "/")
                   /\ Len(step_parts) = 2
                   /\ step_parts[1] = <<"*">>
                   /\ parse_u32(step_parts[2]) # ParseError
    IN  IF field = <<"*">> THEN "true"
        ELSE IF parse_u32(field) # ParseError THEN bool(parse_u32(field) = value)
        ELSE IF is_range
        THEN bool(value >= parse_u32(range_parts[1]) /\ value <= parse_u32(range_parts[2]))
        ELSE IF contains(field, ",") THEN bool(value \in values)
        ELSE IF is_step
        THEN IF parse_u32(step_parts[2]) = 0 THEN "panic"
             ELSE bool(value % parse_u32(step_parts[2]) = 0)
        ELSE "false"

(***************************************************************************)
(* WorkflowScheduler::should_trigger_cron.  now is Utc::now() as <<minute, *)
(* hour, day, month, weekday from Monday>>; the fields are checked in that *)
(* order and the first that does not match ends the check.                 *)
(***************************************************************************)
RECURSIVE fields_match(_, _, _)
fields_match(parts, now, i) ==
    IF i > Len(parts) THEN "true"
    ELSE IF matches_cron_field(parts[i], now[i]) = "true"
    THEN fields_match(parts, now, i + 1)
    ELSE matches_cron_field(parts[i], now[i])

\* A faulty variant of should_trigger_cron: fields after the fifth are ignored.
should_trigger_cron_any_length(cron_expr, now) ==
    LET parts == split_whitespace(cron_expr)
    IN  IF Len(parts) < 5 THEN "false" ELSE fields_match(SubSeq(parts, 1, 5), now, 1)

should_trigger_cron(cron_expr, now) ==
    LET parts == split_whitespace(cron_expr)
    IN  IF Len(parts) # 5 THEN "false" ELSE fields_match(parts, now, 1)

(***************************************************************************)
(* Bounds of the scheduler's model.                                        *)
(***************************************************************************)
MaxWorkflows == 2       \* workflow ids that get a schedule
MaxLoops == 2           \* background loops spawned by start

WorkflowIds == 1..MaxWorkflows

(***************************************************************************)
(* ScheduleType and ScheduleConfig.  Midnight is the tests' "0 0 * * *".   *)
(***************************************************************************)
Midnight == <<"0", " ", "0", " ", "*", " ", "*", " ", "*">>

EveryMinute == <<"*", " ", "*", " ", "*", " ", "*", " ", "*">>

Cron(cron_expr) == [kind |-> "Cron", cron_expr |-> cron_expr]

Interval == [kind |-> "Interval", cron_expr |-> <<>>]

Webhook == [kind |-> "Webhook", cron_expr |-> <<>>]

ScheduleTypes == {Cron(Midnight), Cron(EveryMinute), Interval, Webhook}

ScheduleConfig(workflow_id, schedule_type, enabled) ==
    [workflow_id |-> workflow_id, schedule_type |-> schedule_type,
     enabled |-> enabled]

ScheduleConfigs ==
    {ScheduleConfig(w, t, b) : w \in WorkflowIds, t \in ScheduleTypes, b \in BOOLEAN}

\* Utc::now() at the moments the loop looks at it: <<minute, hour, day of
\* month, month, weekday from Monday>>.
Times == {<<0, 0, 1, 1, 3>>, <<30, 12, 15, 6, 0>>}

(***************************************************************************)
(* The registry operations, on the HashMap.                                *)
(***************************************************************************)
\* A faulty variant of add_schedule: an existing entry is kept.
add_schedule_keep_existing(map, config) ==
    IF config.workflow_id \in DOMAIN map THEN map
    ELSE Insert(map, config.workflow_id, config)

add_schedule(map, config) == Insert(map, config.workflow_id, config)

remove_schedule(map, workflow_id) ==
    [w \in DOMAIN map \ {workflow_id} |-> map[w]]

\* A faulty variant of set_enabled: an absent id gets an entry.
set_enabled_upsert(map, workflow_id, enabled) ==
    IF workflow_id \in DOMAIN map
    THEN [map EXCEPT ![workflow_id].enabled = enabled]
    ELSE Insert(map, workflow_id, ScheduleConfig(workflow_id, Interval, enabled))

\* enable_schedule and disable_schedule: get_mut, and the flag is set.
set_enabled(map, workflow_id, enabled) ==
    IF workflow_id \in DOMAIN map
    THEN [map EXCEPT ![workflow_id].enabled = enabled]
    ELSE map

set_enabled_result(map, workflow_id) ==
    IF workflow_id \in DOMAIN map THEN "Ok" ELSE "NodeNotFound"

\* get_schedules: a clone of the map.
get_schedules(map) == [w \in DOMAIN map |-> map[w]]

(***************************************************************************)
(* A call of the scheduler's API and its return value; schedules is the    *)
(* map get_schedules returned.                                             *)
(***************************************************************************)
SchedulerCall(op, workflow_id, result, map) ==
    [op |-> op, workflow_id |-> workflow_id, result |-> result, schedules |-> map]

NoSchedulerCall == SchedulerCall("None", 0, "None", EmptyMap)

\* A write lock on schedules is granted when no loop holds its read lock.
NoReader == \A l \in DOMAIN loops : loops[l].pc # "scan"

AddSchedule(config) ==
    /\ NoReader
    /\ schedules' = add_schedule(schedules, config)
    /\ scheduler_call' = SchedulerCall("add_schedule", config.workflow_id, "Ok", EmptyMap)
    /\ UNCHANGED <<running, loops>>
    /\ UNCHANGED <<parserVars, executorVars, validatorVars, cronVars>>

RemoveSchedule(workflow_id) ==
    /\ NoReader
    /\ schedules' = remove_schedule(schedules, workflow_id)
    /\ scheduler_call' = SchedulerCall("remove_schedule", workflow_id, "Ok", EmptyMap)
    /\ UNCHANGED <<running, loops>>
    /\ UNCHANGED <<parserVars, executorVars, validatorVars, cronVars>>

EnableSchedule(workflow_id) ==
    /\ NoReader
    /\ schedules' = set_enabled(schedules, workflow_id, TRUE)
    /\ scheduler_call' = SchedulerCall("enable_schedule", workflow_id,
                             set_enabled_result(schedules, workflow_id), EmptyMap)
    /\ UNCHANGED <<running, loops>>
    /\ UNCHANGED <<parserVars, executorVars, validatorVars, cronVars>>

DisableSchedule(workflow_id) ==
    /\ NoReader
    /\ schedules' = set_enabled(schedules, workflow_id, FALSE)
    /\ scheduler_call' = SchedulerCall("disable_schedule", workflow_id,
                             set_enabled_result(schedules, workflow_id), EmptyMap)
    /\ UNCHANGED <<running, loops>>
    /\ UNCHANGED <<parserVars, executorVars, validatorVars, cronVars>>

GetSchedules ==
    /\ scheduler_call' = SchedulerCall("get_schedules", 0, "Ok", get_schedules(schedules))
    /\ UNCHANGED <<schedules, running, loops>>
    /\ UNCHANGED <<parserVars, executorVars, validatorVars, cronVars>>

(***************************************************************************)
(* start and stop.  A loop's pc:                                           *)
(*   tick      in tick_interval.tick().await                               *)
(*   locking   the flag was read as true, before schedules.read()          *)
(*   scan      holds the read lock, remaining lists the entries still to   *)
(*             look at, in the HashMap's iteration order                   *)
(*   exited    left the loop (break)                                       *)
(*   panicked  the task was aborted by a panic                             *)
(* fired holds the workflow ids the current scan found due ("Triggering    *)
(* workflow ... via cron").                                                *)
(***************************************************************************)
Loop(pc, remaining, fired) == [pc |-> pc, remaining |-> remaining, fired |-> fired]

Start ==
    /\ IF running
       THEN /\ scheduler_call' = SchedulerCall("start", 0, "ValidationFailed", EmptyMap)
            /\ UNCHANGED <<running, loops>>
       ELSE /\ Len(loops) < MaxLoops
            /\ running' = TRUE
            /\ loops' = Append(loops, Loop("tick", <<>>, {}))
            /\ scheduler_call' = SchedulerCall("start", 0, "Ok", EmptyMap)
    /\ UNCHANGED schedules
    /\ UNCHANGED <<parserVars, executorVars, validatorVars, cronVars>>

Stop ==
    /\ running' = FALSE
    /\ scheduler_call' = SchedulerCall("stop", 0, "Ok", EmptyMap)
    /\ UNCHANGED <<schedules, loops>>
    /\ UNCHANGED <<parserVars, executorVars, validatorVars, cronVars>>

\* A faulty variant of after_tick: the loop goes on whatever the flag says.
after_tick_ignores_flag(is_running) == "locking"

\* Where the loop goes after a tick, having read the running flag.
after_tick(is_running) == IF is_running THEN "locking" ELSE "exited"

Tick(l) ==
    /\ loops[l].pc = "tick"
    /\ loops' = [loops EXCEPT ![l] = Loop(after_tick(running), <<>>, {})]
    /\ UNCHANGED <<schedules, running, scheduler_call>>
    /\ UNCHANGED <<parserVars, executorVars, validatorVars, cronVars>>

\* schedules.read().await is granted: the scan starts, or ends at once on an
\* empty map.
ScanBegins(l) ==
    /\ loops[l].pc = "locking"
    /\ \E order \in HashOrders(DOMAIN schedules) :
           loops' = [loops EXCEPT ![l] =
                        Loop(IF order = <<>> THEN "tick" ELSE "scan", order, {})]
    /\ UNCHANGED <<schedules, running, scheduler_call>>
    /\ UNCHANGED <<parserVars, executorVars, validatorVars, cronVars>>

\* What one iteration of the scan does with an entry: "skip" when it is
\* disabled, else by rule kind; for a cron rule the outcome of
\* should_trigger_cron.
scan_entry(config, now) ==
    IF ~config.enabled THEN "skip"
    ELSE IF config.schedule_type.kind = "Cron"
    THEN should_trigger_cron(config.schedule_type.cron_expr, now)
    ELSE "skip"

\* One iteration of the scan.  The cron branch logs the workflow id and
\* calls nothing; the other branches do nothing.  After the last entry the
\* read lock is dropped and the loop awaits the next tick.
ScanEntry(l) ==
    /\ loops[l].pc = "scan"
    /\ \E now \in Times :
        LET workflow_id == Head(loops[l].remaining)
            rest == Tail(loops[l].remaining)
            outcome == scan_entry(schedules[workflow_id], now)
        IN  loops' = [loops EXCEPT ![l] =
                Loop(IF outcome = "panic" THEN "panicked"
                     ELSE IF rest = <<>> THEN "tick" ELSE "scan",
                     rest,
                     IF outcome = "true" THEN loops[l].fired \cup {workflow_id}
                     ELSE loops[l].fired)]
    /\ UNCHANGED <<schedules, running, scheduler_call>>
    /\ UNCHANGED <<parserVars, executorVars, validatorVars, cronVars>>

SchedulerInit ==
    /\ workflow = SimpleWorkflow
    /\ parse_result = NoResult
    /\ sort_result = NoResult
    /\ execution_contexts = EmptyMap
    /\ variables = <<>>
    /\ calls = <<>>
    /\ schedules = EmptyMap
    /\ running = FALSE
    /\ loops = <<>>
    /\ scheduler_call = NoSchedulerCall
    /\ validated_workflow = [nodes |-> <<>>, edges |-> <<>>]
    /\ validate_result =
           [kind |-> "None", valid |-> FALSE, errors |-> <<>>, warnings |-> <<>>]
    /\ reachability_result = [kind |-> "None", nodes |-> <<>>]
    /\ type_check = [source_type |-> "Any", target_type |-> "Any",
                     compatible |-> "None", reverse |-> "None"]
    /\ cron_check = [op |-> "None", result |-> "None"]

SchedulerNext ==
    \/ \E config \in ScheduleConfigs : AddSchedule(config)
    \/ \E w \in WorkflowIds : RemoveSchedule(w)
    \/ \E w \in WorkflowIds : EnableSchedule(w)
    \/ \E w \in WorkflowIds : DisableSchedule(w)
    \/ GetSchedules
    \/ Start
    \/ Stop
    \/ \E l \in DOMAIN loops : Tick(l)
    \/ \E l \in DOMAIN loops : ScanBegins(l)
    \/ \E l \in DOMAIN loops : ScanEntry(l)

SpecScheduler == SchedulerInit /\ [][SchedulerNext]_vars

(***************************************************************************)
(* C12: the registry is the reference map from workflow id to config:      *)
(* add_schedule inserts or replaces the one entry of its workflow id,      *)
(* remove_schedule deletes it, enable_schedule and disable_schedule set    *)
(* the enabled flag of an existing entry and leave its rule unchanged, no  *)
(* other step changes the registry, every entry is filed under its own     *)
(* workflow id, and get_schedules returns the registry.                    *)
(***************************************************************************)
ReferenceAdd(map, config) ==
    [w \in DOMAIN map \cup {config.workflow_id} |->
        IF w = config.workflow_id THEN config ELSE map[w]]

ReferenceRemove(map, workflow_id) ==
    [w \in DOMAIN map \ {workflow_id} |-> map[w]]

ReferenceSetEnabled(map, workflow_id, enabled) ==
    [w \in DOMAIN map |->
        IF w = workflow_id
        THEN ScheduleConfig(w, map[w].schedule_type, enabled)
        ELSE map[w]]

C12_RegistryIsReferenceMap ==
    [][/\ \A config \in ScheduleConfigs :
            AddSchedule(config) => schedules' = ReferenceAdd(schedules, config)
       /\ \A w \in WorkflowIds :
            /\ RemoveSchedule(w) => schedules' = ReferenceRemove(schedules, w)
            /\ EnableSchedule(w) => schedules' = ReferenceSetEnabled(schedules, w, TRUE)
            /\ DisableSchedule(w) => schedules' = ReferenceSetEnabled(schedules, w, FALSE)
       /\ GetSchedules => scheduler_call'.schedules = schedules
       /\ scheduler_call'.op \notin
              {"add_schedule", "remove_schedule", "enable_schedule", "disable_schedule"}
              => schedules' = schedules
       /\ \A w \in DOMAIN schedules' : schedules'[w].workflow_id = w]_vars

\* Both workflow ids have an entry, the first one disabled, and
\* get_schedules has just returned.
C12_Witness ==
    /\ scheduler_call.op = "get_schedules"
    /\ scheduler_call.schedules = schedules
    /\ DOMAIN schedules = WorkflowIds
    /\ ~schedules[1].enabled
    /\ schedules[1].schedule_type = Cron(Midnight)
    /\ schedules[2].enabled

(***************************************************************************)
(* C13, as claimed: in a scan of the running scheduler the executor is     *)
(* invoked for an entry exactly when the entry is enabled and its rule     *)
(* fires at that moment.                                                   *)
(***************************************************************************)
C13_FiringInvokesExecutor ==
    [][\A l \in DOMAIN loops :
          (loops[l].pc = "scan" /\ loops'[l] # loops[l]) =>
              (Head(loops[l].remaining) \in loops'[l].fired <=> calls' # calls)]_vars

(***************************************************************************)
(* C14: a loop that finds the running flag cleared when its tick comes     *)
(* exits without scanning, and a loop that has exited takes no further     *)
(* step; stop changes the flag only, and a scan under way goes on to the   *)
(* next entry whatever the flag says.                                      *)
(***************************************************************************)
C14_StopEndsLoopAtNextTick ==
    [][/\ \A l \in DOMAIN loops :
            /\ (loops[l].pc = "tick" /\ ~running /\ loops'[l] # loops[l]) =>
                   loops'[l].pc = "exited"
            /\ loops[l].pc = "exited" => loops'[l] = loops[l]
            /\ (loops[l].pc = "scan" /\ loops'[l] # loops[l]) =>
                   /\ loops'[l].remaining = Tail(loops[l].remaining)
                   /\ loops'[l].pc \in {"scan", "tick", "panicked"}
       /\ Stop => (loops' = loops /\ schedules' = schedules /\ ~running')]_vars

\* stop has returned and a loop has left at its next tick.
C14_Witness ==
    /\ scheduler_call.op = "stop"
    /\ ~running
    /\ \E l \in DOMAIN loops : loops[l].pc = "exited"
    /\ schedules # EmptyMap

(***************************************************************************)
(* WorkflowValidator (validator.rs).  The validator reads what the parser  *)
(* and the executor do not: a node's type, parameters and ports, and both  *)
(* handles of an edge.                                                     *)
(***************************************************************************)
DataTypes == {"String", "Number", "Boolean", "Object", "Array", "Any"}

Port(name, data_type) == [name |-> name, data_type |-> data_type]

\* A Node: trigger_type is that of a Trigger, language and code are those of a
\* Custom node's config, parameters is the key set of config.parameters.
Node(id, node_type, trigger_type, parameters, language, code, inputs, outputs) ==
    [id |-> id, node_type |-> node_type, trigger_type |-> trigger_type,
     parameters |-> parameters, language |-> language, code |-> code,
     inputs |-> inputs, outputs |-> outputs]

ConnectedEdge(s, sh, t, th) ==
    [source |-> s, source_handle |-> sh, target |-> t, target_handle |-> th]

(***************************************************************************)
(* The entries of errors and warnings.  An entry is known by the rule that *)
(* produced it, the node it names and, where the message has one, the      *)
(* field or port name and the port index; an IncompatibleTypes entry names *)
(* the source node and, as index, the target node.                         *)
(***************************************************************************)
ValidationEntry(kind, node, name, index) ==
    [kind |-> kind, node |-> node, name |-> name, index |-> index]

(***************************************************************************)
(* WorkflowValidator::are_types_compatible                                 *)
(***************************************************************************)
\* A faulty variant of are_types_compatible: Any is accepted as a target only.
are_types_compatible_any_target(source_type, target_type) ==
    source_type = target_type \/ target_type = "Any"

are_types_compatible(source_type, target_type) ==
    IF source_type = target_type THEN TRUE
    ELSE IF source_type = "Any" \/ target_type = "Any" THEN TRUE
    ELSE FALSE

(***************************************************************************)
(* WorkflowValidator::validate_required_fields: Ok, or the first missing   *)
(* field.                                                                  *)
(***************************************************************************)
NoField == ""

validate_required_fields(node) ==
    IF node.node_type = "Trigger" THEN
        IF node.trigger_type = "Webhook" /\ "webhook_url" \notin node.parameters
        THEN "webhook_url"
        ELSE IF node.trigger_type = "Schedule"
                    /\ "cron_expression" \notin node.parameters
        THEN "cron_expression"
        ELSE NoField
    ELSE IF node.node_type = "AI" THEN
        IF "model" \notin node.parameters THEN "model"
        ELSE IF "prompt" \notin node.parameters THEN "prompt"
        ELSE NoField
    ELSE IF node.node_type = "Custom" THEN
        IF node.language = "" THEN "language" ELSE NoField
    ELSE NoField

(***************************************************************************)
(* WorkflowValidator::validate_node: the errors and the warnings of one    *)
(* node, in the order they are pushed.                                     *)
(***************************************************************************)
unnamed_ports(kind, id, ports) ==
    LET idx == SelectSeq([i \in DOMAIN ports |-> i], LAMBDA i : ports[i].name = "")
    IN  [k \in DOMAIN idx |-> ValidationEntry(kind, id, "", idx[k] - 1)]

validate_node_errors(node) ==
    (IF node.node_type = "Trigger" /\ node.outputs = <<>>
     THEN <<ValidationEntry("TriggerNoOutput", node.id, "", 0)>>
     ELSE IF node.node_type = "Condition" /\ Len(node.outputs) < 2
     THEN <<ValidationEntry("ConditionOutputs", node.id, "", 0)>>
     ELSE IF node.node_type = "Loop" /\ node.inputs = <<>>
     THEN <<ValidationEntry("LoopNoInput", node.id, "", 0)>>
     ELSE IF node.node_type = "Custom" /\ node.code = ""
     THEN <<ValidationEntry("CustomNoCode", node.id, "", 0)>>
     ELSE <<>>)
    \o (IF validate_required_fields(node) # NoField
        THEN <<ValidationEntry("MissingRequiredField", node.id,
                               validate_required_fields(node), 0)>>
        ELSE <<>>)
    \o unnamed_ports("InputPortNoName", node.id, node.inputs)
    \o unnamed_ports("OutputPortNoName", node.id, node.outputs)

validate_node_warnings(node) ==
    IF node.node_type = "Trigger" /\ Len(node.inputs) > 0
    THEN <<ValidationEntry("TriggerHasInputs", node.id, "", 0)>>
    ELSE IF node.node_type = "Action" /\ node.inputs = <<>>
    THEN <<ValidationEntry("ActionNoInputs", node.id, "", 0)>>
    ELSE IF node.node_type = "AI" /\ node.inputs = <<>>
    THEN <<ValidationEntry("AINoInputs", node.id, "", 0)>>
    ELSE <<>>

(***************************************************************************)
(* WorkflowValidator::validate_connection: Ok (no entry), or its first     *)
(* error.  node_map is the HashMap from id to node: of two nodes with the  *)
(* same id it holds the later one.                                         *)
(***************************************************************************)
node_map(wf, id) ==
    wf.nodes[CHOOSE i \in DOMAIN wf.nodes :
                 /\ wf.nodes[i].id = id
                 /\ \A j \in DOMAIN wf.nodes : wf.nodes[j].id = id => j <= i]

NodeIdsOf(wf) == {wf.nodes[i].id : i \in DOMAIN wf.nodes}

\* iter().find(|p| p.name == handle), or first() for an empty handle: the
\* index of the port, 0 when there is none.
find_port(ports, handle) ==
    IF handle # ""
    THEN IF \E i \in DOMAIN ports : ports[i].name = handle
         THEN Min({i \in DOMAIN ports : ports[i].name = handle}) ELSE 0
    ELSE IF ports # <<>> THEN 1 ELSE 0

validate_connection(edge, wf) ==
    IF edge.source \notin NodeIdsOf(wf)
    THEN <<ValidationEntry("NodeNotFound", edge.source, "", 0)>>
    ELSE IF edge.target \notin NodeIdsOf(wf)
    THEN <<ValidationEntry("NodeNotFound", edge.target, "", 0)>>
    ELSE LET outputs == node_map(wf, edge.source).outputs
             inputs == node_map(wf, edge.target).inputs
             s == find_port(outputs, edge.source_handle)
             t == find_port(inputs, edge.target_handle)
         IN  IF s = 0
             THEN IF edge.source_handle # ""
                  THEN <<ValidationEntry("PortNotFound", edge.source,
                                         edge.source_handle, 0)>>
                  ELSE <<ValidationEntry("NoOutputPorts", edge.source, "", 0)>>
             ELSE IF t = 0
             THEN IF edge.target_handle # ""
                  THEN <<ValidationEntry("PortNotFound", edge.target,
                                         edge.target_handle, 0)>>
                  ELSE <<ValidationEntry("NoInputPorts", edge.target, "", 0)>>
             ELSE IF ~are_types_compatible(outputs[s].data_type, inputs[t].data_type)
             THEN <<ValidationEntry("IncompatibleTypes", edge.source, "", edge.target)>>
             ELSE <<>>

(***************************************************************************)
(* WorkflowValidator::validate                                             *)
(***************************************************************************)
is_trigger_node(node) == node.node_type = "Trigger"

has_connections(node_id, wf) ==
    \E i \in DOMAIN wf.edges :
        wf.edges[i].source = node_id \/ wf.edges[i].target = node_id

RECURSIVE Flatten(_)
Flatten(seqs) == IF seqs = <<>> THEN <<>> ELSE Head(seqs) \o Flatten(Tail(seqs))

\* A faulty variant of is_valid: warnings make the workflow invalid too.
is_valid_no_warnings(errors, warnings) == errors = <<>> /\ warnings = <<>>

is_valid(errors, warnings) == errors = <<>>

validate(wf) ==
    LET errors ==
            Flatten([i \in DOMAIN wf.nodes |-> validate_node_errors(wf.nodes[i])])
            \o Flatten([i \in DOMAIN wf.edges |-> validate_connection(wf.edges[i], wf)])
        warnings ==
            Flatten([i \in DOMAIN wf.nodes |-> validate_node_warnings(wf.nodes[i])])
            \o Flatten([i \in DOMAIN wf.nodes |->
                   IF ~is_trigger_node(wf.nodes[i])
                          /\ ~has_connections(wf.nodes[i].id, wf)
                   THEN <<ValidationEntry("Isolated", wf.nodes[i].id, "", 0)>>
                   ELSE <<>>])
    IN  [kind |-> "Ok", valid |-> is_valid(errors, warnings),
         errors |-> errors, warnings |-> warnings]

NoValidation == [kind |-> "None", valid |-> FALSE, errors |-> <<>>, warnings |-> <<>>]

(***************************************************************************)
(* WorkflowValidator::validate_reachability: breadth-first from the        *)
(* trigger nodes; the nodes not reached are listed in node order.          *)
(***************************************************************************)
RECURSIVE insert_neighbors(_, _, _, _)
insert_neighbors(neighbors, i, reachable, queue) ==
    IF i > Len(neighbors) THEN [reachable |-> reachable, queue |-> queue]
    ELSE IF neighbors[i] \notin reachable
    THEN insert_neighbors(neighbors, i + 1,
             reachable \cup {neighbors[i]}, Append(queue, neighbors[i]))
    ELSE insert_neighbors(neighbors, i + 1, reachable, queue)

\* A faulty variant of bfs: the neighbors of the trigger nodes are reached, and no
\* node beyond them.
RECURSIVE bfs_one_step(_, _, _)
bfs_one_step(wf, reachable, queue) ==
    IF queue = <<>> THEN reachable
    ELSE bfs_one_step(wf,
             reachable \cup Range(targets_from(wf.edges, Head(queue), 1)),
             Tail(queue))

RECURSIVE bfs(_, _, _)
bfs(wf, reachable, queue) ==
    IF queue = <<>> THEN reachable
    ELSE LET r == insert_neighbors(targets_from(wf.edges, Head(queue), 1), 1,
                                   reachable, Tail(queue))
         IN  bfs(wf, r.reachable, r.queue)

ReachabilityResult(kind, nodes) == [kind |-> kind, nodes |-> nodes]

validate_reachability(wf) ==
    LET ids == [i \in DOMAIN wf.nodes |-> wf.nodes[i].id]
        triggers == [i \in DOMAIN wf.nodes |-> IF is_trigger_node(wf.nodes[i])
                                                THEN <<wf.nodes[i].id>> ELSE <<>>]
        reachable == bfs(wf, Range(Flatten(triggers)), Flatten(triggers))
        unreachable == SelectSeq(ids, LAMBDA id : id \notin reachable)
    IN  IF Flatten(triggers) = <<>> THEN ReachabilityResult("NoTriggerNode", <<>>)
        ELSE IF unreachable # <<>> THEN ReachabilityResult("UnreachableNodes", unreachable)
        ELSE ReachabilityResult("Ok", <<>>)

(***************************************************************************)
(* Bounds of the validator's model.                                        *)
(***************************************************************************)
MaxConnections == 1     \* edges of a workflow of configured nodes
MaxGraphNodes == 3      \* nodes of a workflow of plain nodes
MaxGraphEdges == 2      \* edges of a workflow of plain nodes

(***************************************************************************)
(* The nodes handed to the validator.  TriggerManual is the tests'         *)
(* create_test_node for a Trigger, ActionHttp an Action with typed ports.  *)
(***************************************************************************)
TriggerManual(id) ==
    Node(id, "Trigger", "Manual", {}, "", "", <<>>, <<Port("output", "Any")>>)

ActionHttp(id) ==
    Node(id, "Action", "", {}, "", "",
         <<Port("input", "String")>>, <<Port("output", "Number")>>)

\* Per id: the two nodes above; a Webhook trigger with no webhook_url, an input
\* port and no output; the tests' create_test_node for an Action; AI nodes with
\* neither key, with model alone and with both; a Condition with one output; a
\* Loop with no input; a Custom node with no language, no code and unnamed ports.
ConfiguredNodes ==
    UNION {{TriggerManual(id),
            ActionHttp(id),
            Node(id, "Trigger", "Webhook", {}, "", "", <<Port("in", "String")>>, <<>>),
            Node(id, "Action", "", {}, "", "", <<>>, <<Port("output", "Any")>>),
            Node(id, "AI", "", {}, "", "", <<>>, <<Port("output", "String")>>),
            Node(id, "AI", "", {"model"}, "", "",
                 <<Port("input", "Any")>>, <<Port("output", "String")>>),
            Node(id, "AI", "", {"model", "prompt"}, "", "",
                 <<Port("input", "String")>>, <<Port("output", "String")>>),
            Node(id, "Condition", "", {}, "", "",
                 <<Port("input", "Boolean")>>, <<Port("output", "Boolean")>>),
            Node(id, "Loop", "", {}, "", "", <<>>, <<Port("output", "Array")>>),
            Node(id, "Custom", "", {}, "", "",
                 <<Port("", "Object"), Port("input", "Object")>>,
                 <<Port("", "Object")>>)} : id \in NodeIds}

Connections ==
    {ConnectedEdge(s, sh, t, th) :
        s \in NodeIds, t \in NodeIds, sh \in {"", "output"}, th \in {"", "input"}}

GraphNodes == UNION {{TriggerManual(id), ActionHttp(id)} : id \in 1..MaxGraphNodes}

GraphEdges ==
    {ConnectedEdge(s, "output", t, "input") :
        s \in 1..MaxGraphNodes, t \in 1..MaxGraphNodes}

ValidatorWorkflows ==
    {Workflow(ns, es) : ns \in SeqsUpTo(ConfiguredNodes, MaxNodes),
                        es \in SeqsUpTo(Connections, MaxConnections)}
    \cup {Workflow(ns, es) : ns \in SeqsUpTo(GraphNodes, MaxGraphNodes),
                             es \in SeqsUpTo(GraphEdges, MaxGraphEdges)}

(***************************************************************************)
(* The validator as a state machine: a Workflow, and the two calls on it.  *)
(***************************************************************************)
ValidateCall ==
    /\ validate_result = NoValidation
    /\ validate_result' = validate(validated_workflow)
    /\ UNCHANGED <<validated_workflow, reachability_result, type_check>>
    /\ UNCHANGED <<parserVars, executorVars, schedulerVars, cronVars>>

ValidateReachabilityCall ==
    /\ reachability_result = ReachabilityResult("None", <<>>)
    /\ reachability_result' = validate_reachability(validated_workflow)
    /\ UNCHANGED <<validated_workflow, validate_result, type_check>>
    /\ UNCHANGED <<parserVars, executorVars, schedulerVars, cronVars>>

ValidatorInit ==
    /\ workflow = SimpleWorkflow
    /\ parse_result = NoResult
    /\ sort_result = NoResult
    /\ execution_contexts = EmptyMap
    /\ variables = <<>>
    /\ calls = <<>>
    /\ schedules = EmptyMap
    /\ running = FALSE
    /\ loops = <<>>
    /\ scheduler_call = NoSchedulerCall
    /\ validated_workflow \in ValidatorWorkflows
    /\ validate_result = NoValidation
    /\ reachability_result = ReachabilityResult("None", <<>>)
    /\ type_check = [source_type |-> "Any", target_type |-> "Any",
                     compatible |-> "None", reverse |-> "None"]
    /\ cron_check = [op |-> "None", result |-> "None"]

ValidatorNext == ValidateCall \/ ValidateReachabilityCall

SpecValidator == ValidatorInit /\ [][ValidatorNext]_vars

(***************************************************************************)
(* are_types_compatible on a pair of data types, and on the pair reversed. *)
(***************************************************************************)
AreTypesCompatibleCall ==
    /\ type_check.compatible = "None"
    /\ type_check' = [type_check EXCEPT !.compatible =
           bool(are_types_compatible(type_check.source_type, type_check.target_type))]
    /\ UNCHANGED <<validated_workflow, validate_result, reachability_result>>
    /\ UNCHANGED <<parserVars, executorVars, schedulerVars, cronVars>>

AreTypesCompatibleReverseCall ==
    /\ type_check.reverse = "None"
    /\ type_check' = [type_check EXCEPT !.reverse =
           bool(are_types_compatible(type_check.target_type, type_check.source_type))]
    /\ UNCHANGED <<validated_workflow, validate_result, reachability_result>>
    /\ UNCHANGED <<parserVars, executorVars, schedulerVars, cronVars>>

TypesInit ==
    /\ workflow = SimpleWorkflow
    /\ parse_result = NoResult
    /\ sort_result = NoResult
    /\ execution_contexts = EmptyMap
    /\ variables = <<>>
    /\ calls = <<>>
    /\ schedules = EmptyMap
    /\ running = FALSE
    /\ loops = <<>>
    /\ scheduler_call = NoSchedulerCall
    /\ validated_workflow = Workflow(<<>>, <<>>)
    /\ validate_result = NoValidation
    /\ reachability_result = ReachabilityResult("None", <<>>)
    /\ type_check \in [source_type : DataTypes, target_type : DataTypes,
                       compatible : {"None"}, reverse : {"None"}]
    /\ cron_check = [op |-> "None", result |-> "None"]

TypesNext == AreTypesCompatibleCall \/ AreTypesCompatibleReverseCall

SpecTypes == TypesInit /\ [][TypesNext]_vars

(***************************************************************************)
(* What the validator's claims speak of.                                   *)
(***************************************************************************)
HasEntry(entries, entry) == \E e \in DOMAIN entries : entries[e] = entry

RequiredOfAI == {"model", "prompt"}

TriggerIds(wf) ==
    {wf.nodes[i].id : i \in {j \in DOMAIN wf.nodes : wf.nodes[j].node_type = "Trigger"}}

FromTriggers(wf) == ReachableFrom(wf, TriggerIds(wf), Len(wf.edges))

IsolatedIds(wf) ==
    {wf.nodes[i].id : i \in {j \in DOMAIN wf.nodes :
        /\ wf.nodes[j].node_type # "Trigger"
        /\ \A e \in DOMAIN wf.edges :
               wf.edges[e].source # wf.nodes[j].id /\ wf.edges[e].target # wf.nodes[j].id}}

\* C17: validate accumulates every error: once it has returned, its errors hold,
\* for every AI node of the workflow and each of the keys model and prompt that
\* the node's parameters lack, a missing-field entry naming that node and that
\* key.
C17_EveryMissingKeyReported ==
    validate_result.kind = "Ok" =>
        \A i \in DOMAIN validated_workflow.nodes :
            validated_workflow.nodes[i].node_type = "AI" =>
                \A key \in RequiredOfAI \ validated_workflow.nodes[i].parameters :
                    HasEntry(validate_result.errors,
                             ValidationEntry("MissingRequiredField",
                                             validated_workflow.nodes[i].id, key, 0))

\* C18: once validate has returned, valid is true exactly when errors is empty,
\* whatever the warnings are, and the warnings hold an isolated-node entry for a
\* node id exactly when a non-trigger node of that id is the source or target of
\* no edge.
C18_ValidIffNoErrors ==
    validate_result.kind = "Ok" =>
        /\ validate_result.valid = (validate_result.errors = <<>>)
        /\ \A id \in NodeIdsOf(validated_workflow) :
               HasEntry(validate_result.warnings, ValidationEntry("Isolated", id, "", 0))
                   <=> id \in IsolatedIds(validated_workflow)
        /\ \A w \in DOMAIN validate_result.warnings :
               validate_result.warnings[w].kind = "Isolated"
                   => validate_result.warnings[w].node \in IsolatedIds(validated_workflow)

\* C18 witness: validate returned valid for a workflow with an edge, with an
\* isolated-node warning among its warnings.
C18_Witness ==
    /\ validate_result.kind = "Ok"
    /\ validate_result.valid
    /\ validated_workflow.edges # <<>>
    /\ \E w \in DOMAIN validate_result.warnings :
           validate_result.warnings[w].kind = "Isolated"

\* C19: are_types_compatible is true exactly for two identical types and for a
\* pair with Any on either side, and gives the same answer on the reversed pair.
C19_CompatibleIffEqualOrAny ==
    /\ type_check.compatible # "None" =>
           ((type_check.compatible = "true")
               <=> \/ type_check.source_type = type_check.target_type
                   \/ type_check.source_type = "Any"
                   \/ type_check.target_type = "Any")
    /\ type_check.compatible # "None" /\ type_check.reverse # "None" =>
           type_check.compatible = type_check.reverse

\* C19 witness: Any as the source of a pair whose target is another type was
\* found compatible, and so was the reversed pair.
C19_Witness ==
    /\ type_check.source_type = "Any"
    /\ type_check.target_type = "Number"
    /\ type_check.compatible = "true"
    /\ type_check.reverse = "true"

\* C20: validate_reachability returns Ok exactly when the workflow has a Trigger
\* node and every node id is reached from the Trigger nodes along the edges;
\* without a Trigger node it returns NoTriggerNode, and otherwise
\* UnreachableNodes with exactly the node ids that are not reached.
C20_ReachabilityFromTriggers ==
    reachability_result.kind # "None" =>
        LET unreached == NodeIdsOf(validated_workflow) \ FromTriggers(validated_workflow)
        IN  /\ (reachability_result.kind = "Ok")
                   <=> (TriggerIds(validated_workflow) # {} /\ unreached = {})
            /\ TriggerIds(validated_workflow) = {}
                   => reachability_result.kind = "NoTriggerNode"
            /\ TriggerIds(validated_workflow) # {} /\ unreached # {}
                   => /\ reachability_result.kind = "UnreachableNodes"
                      /\ Range(reachability_result.nodes) = unreached

\* C20 witness: three nodes, one of them reached from the trigger through another
\* node and one listed as unreachable although an edge leads to it.
C20_Witness ==
    /\ reachability_result.kind = "UnreachableNodes"
    /\ Cardinality(NodeIdsOf(validated_workflow)) = MaxGraphNodes
    /\ \E e \in DOMAIN validated_workflow.edges :
           validated_workflow.edges[e].target \in Range(reachability_result.nodes)
    /\ FromTriggers(validated_workflow) # TriggerIds(validated_workflow)

(***************************************************************************)
(* Cron matching on its own: a field and a value handed to                 *)
(* matches_cron_field, or an expression handed to should_trigger_cron at a *)
(* time Utc::now() gives.                                                  *)
(***************************************************************************)
MaxCronValue == 15      \* largest number in a field, and largest value matched
MaxCronFields == 6      \* most fields in an expression

\* The decimal digits of n, as u32's to_string writes them.
RECURSIVE Decimal(_)
Decimal(n) == IF n < 10 THEN <<Digits[n + 1]>> ELSE Decimal(n \div 10) \o <<Digits[(n % 10) + 1]>>

RECURSIVE Join(_, _)
Join(parts, sep) ==
    IF parts = <<>> THEN <<>>
    ELSE IF Len(parts) = 1 THEN parts[1]
    ELSE parts[1] \o sep \o Join(Tail(parts), sep)

CronValues == 0..MaxCronValue

\* The numbers of the lists: those of the tests' "1,3,5", and 10.
ListNumbers == {1, 3, 5, 10}

\* Field strings of none of the five forms.
MalformedFields ==
    {<<>>,
     <<"*", "/", "0">>,
     <<"*", "/">>,
     <<"*", "/", "x">>,
     <<"5", "/", "5">>,
     <<"1", "-">>,
     <<"-", "5">>,
     <<"a", "-", "5">>,
     <<"1", "-", "2", "-", "3">>,
     <<"1", ",", "x", ",", "3">>,
     <<"1", "-", "3", ",", "5">>,
     <<"x">>}

CronField(form, numbers, field) == [form |-> form, numbers |-> numbers, field |-> field]

\* A field of each form, written from the numbers it stands for.
CronFields ==
    {CronField("wildcard", <<>>, <<"*">>)}
    \cup {CronField("integer", <<n>>, Decimal(n)) : n \in CronValues}
    \cup {CronField("range", <<a, b>>, Decimal(a) \o <<"-">> \o Decimal(b)) :
              a \in CronValues, b \in CronValues}
    \cup {CronField("list", ns, Join([i \in DOMAIN ns |-> Decimal(ns[i])], <<",">>)) :
              ns \in [1..2 -> ListNumbers] \cup [1..3 -> ListNumbers]}
    \cup {CronField("step", <<n>>, <<"*", "/">> \o Decimal(n)) : n \in CronValues \ {0}}
    \cup {CronField("malformed", <<>>, field) : field \in MalformedFields}

\* Utc::now(): minute, hour, day of month, month and chrono's Weekday.
Clock(minute, hour, day, month, weekday) ==
    [minute |-> minute, hour |-> hour, day |-> day, month |-> month,
     weekday |-> weekday]

Clocks == {Clock(0, 0, 1, 1, "Thu"), Clock(30, 12, 15, 6, "Mon")}

\* chrono::Weekday::num_days_from_monday
num_days_from_monday(weekday) ==
    CASE weekday = "Mon" -> 0
      [] weekday = "Tue" -> 1
      [] weekday = "Wed" -> 2
      [] weekday = "Thu" -> 3
      [] weekday = "Fri" -> 4
      [] weekday = "Sat" -> 5
      [] weekday = "Sun" -> 6

\* The fields of the expressions: "*" and numbers that some component of the
\* Clocks equals and others do not.
ExprFields == {<<"*">>, <<"0">>, <<"1">>, <<"3", "0">>}

Blanks == {<<" ">>, <<" ", " ">>}

CronExprs ==
    {[fields |-> fields, cron_expr |-> Join(fields, blank)] :
        fields \in UNION {[1..k -> ExprFields] : k \in (MaxCronFields - 2)..MaxCronFields},
        blank \in Blanks}

MatchesCronFieldCall ==
    /\ cron_check.op = "matches_cron_field"
    /\ cron_check.result = "None"
    /\ cron_check' = [cron_check EXCEPT !.result =
                          matches_cron_field(cron_check.input.field, cron_check.value)]
    /\ UNCHANGED <<parserVars, executorVars, schedulerVars, validatorVars>>

ShouldTriggerCronCall ==
    /\ cron_check.op = "should_trigger_cron"
    /\ cron_check.result = "None"
    /\ LET now == cron_check.value
       IN  cron_check' = [cron_check EXCEPT !.result =
               should_trigger_cron(cron_check.input.cron_expr,
                   <<now.minute, now.hour, now.day, now.month,
                     num_days_from_monday(now.weekday)>>)]
    /\ UNCHANGED <<parserVars, executorVars, schedulerVars, validatorVars>>

CronInit ==
    /\ workflow = SimpleWorkflow
    /\ parse_result = NoResult
    /\ sort_result = NoResult
    /\ execution_contexts = EmptyMap
    /\ variables = <<>>
    /\ calls = <<>>
    /\ schedules = EmptyMap
    /\ running = FALSE
    /\ loops = <<>>
    /\ scheduler_call = NoSchedulerCall
    /\ validated_workflow = Workflow(<<>>, <<>>)
    /\ validate_result = NoValidation
    /\ reachability_result = ReachabilityResult("None", <<>>)
    /\ type_check = [source_type |-> "Any", target_type |-> "Any",
                     compatible |-> "None", reverse |-> "None"]
    /\ cron_check \in
           {[op |-> "matches_cron_field", input |-> f, value |-> v, result |-> "None"] :
                f \in CronFields, v \in CronValues}
           \cup {[op |-> "should_trigger_cron", input |-> e, value |-> now,
                  result |-> "None"] : e \in CronExprs, now \in Clocks}

CronNext == MatchesCronFieldCall \/ ShouldTriggerCronCall

SpecCron == CronInit /\ [][CronNext]_vars

(***************************************************************************)
(* What the cron claims speak of.                                          *)
(***************************************************************************)
\* What a field of one of the five forms says of a value.
FieldMeaning(input, v) ==
    CASE input.form = "wildcard" -> TRUE
      [] input.form = "integer" -> v = input.numbers[1]
      [] input.form = "range" -> input.numbers[1] <= v /\ v <= input.numbers[2]
      [] input.form = "list" -> v \in Range(input.numbers)
      [] input.form = "step" -> v % input.numbers[1] = 0

Weekdays == <<"Mon", "Tue", "Wed", "Thu", "Fri", "Sat", "Sun">>

\* The component of the time that the i-th field is matched against.
Component(now, i) ==
    CASE i = 1 -> now.minute
      [] i = 2 -> now.hour
      [] i = 3 -> now.day
      [] i = 4 -> now.month
      [] i = 5 -> Position(Weekdays, now.weekday) - 1

\* C21: for a field of each of the five forms and every value,
\* matches_cron_field is true exactly when the field is "*", or is the value, or
\* is a range a-b with a <= value <= b, or is a list holding the value, or is
\* */n with value mod n = 0.
C21_FieldFormsMatch ==
    (/\ cron_check.op = "matches_cron_field"
     /\ cron_check.result # "None"
     /\ cron_check.input.form # "malformed")
        => cron_check.result = bool(FieldMeaning(cron_check.input, cron_check.value))

\* C21 witness: "*/5" was matched against 10 and found true.
C21_Witness ==
    /\ cron_check.op = "matches_cron_field"
    /\ cron_check.input.form = "step"
    /\ cron_check.input.field = <<"*", "/", "5">>
    /\ cron_check.value = 10
    /\ cron_check.result = "true"

\* C22: for a field that is of none of the five forms, matches_cron_field
\* returns false for every value: it neither matches nor fails.
C22_MalformedFieldNeverMatches ==
    (/\ cron_check.op = "matches_cron_field"
     /\ cron_check.result # "None"
     /\ cron_check.input.form = "malformed")
        => cron_check.result = "false"

\* C29: should_trigger_cron fires exactly when the expression has exactly five
\* whitespace-separated fields and each matches its component of the time:
\* minute, hour, day of month, month, weekday with Monday as 0.
C29_FiresIffFiveFieldsMatch ==
    (cron_check.op = "should_trigger_cron" /\ cron_check.result # "None") =>
        /\ cron_check.result \in {"true", "false"}
        /\ (cron_check.result = "true")
               <=> /\ Len(cron_check.input.fields) = 5
                   /\ \A i \in DOMAIN cron_check.input.fields :
                          matches_cron_field(cron_check.input.fields[i],
                                             Component(cron_check.value, i)) = "true"

\* C29 witness: an expression with minute field "30" and weekday field "0"
\* fired at minute 30 of a Monday.
C29_Witness ==
    /\ cron_check.op = "should_trigger_cron"
    /\ cron_check.result = "true"
    /\ cron_check.value.weekday = "Mon"
    /\ cron_check.input.fields[1] = <<"3", "0">>
    /\ cron_check.input.fields[5] = <<"0">>

\* C30: enable_schedule and disable_schedule on a workflow id without an entry
\* return an error and leave the registry as it was; remove_schedule on such an
\* id returns Ok and leaves the registry as it was.
C30_AbsentIdLeavesRegistry ==
    [][\A w \in WorkflowIds :
           w \notin DOMAIN schedules =>
               /\ (EnableSchedule(w) \/ DisableSchedule(w))
                      => scheduler_call'.result = "NodeNotFound" /\ schedules' = schedules
               /\ RemoveSchedule(w)
                      => scheduler_call'.result = "Ok" /\ schedules' = schedules]_vars

\* C30 witness: the registry holds an entry for one workflow id, and
\* enable_schedule on the other id has just returned its error.
C30_Witness ==
    /\ scheduler_call.op = "enable_schedule"
    /\ scheduler_call.result = "NodeNotFound"
    /\ scheduler_call.workflow_id \notin DOMAIN schedules
    /\ schedules # EmptyMap

(***************************************************************************)
(* What the later executor claims speak of.                                *)
(***************************************************************************)
\* 100, 200, 400, ...: the k-th of the delays, each the double of the one before.
RECURSIVE Doubled(_)
Doubled(k) == IF k = 1 THEN 100 ELSE 2 * Doubled(k - 1)

\* C28: in execute_with_retry the k-th sleep, the one between attempt k and
\* attempt k + 1, lasts 100 * 2^(k-1) milliseconds; no sleep comes before the
\* first attempt nor after the last failed one: while attempt k + 1 runs, and
\* after the call has returned, as many sleeps were made as attempts were
\* followed by another, max_retries of them when every attempt failed.
C28_BackoffDelays ==
    \A c \in DOMAIN calls :
        calls[c].op = "execute_with_retry" =>
            /\ \A k \in DOMAIN calls[c].delays : calls[c].delays[k] = Doubled(k)
            /\ Len(calls[c].delays) =
                   IF calls[c].pc = "backoff" THEN calls[c].invocations
                   ELSE calls[c].invocations - 1
            /\ (calls[c].pc = "returned" /\ calls[c].result.kind = "Err")
                   => /\ calls[c].invocations = calls[c].max_retries + 1
                      /\ Len(calls[c].delays) = calls[c].max_retries

\* C28 witness: every attempt of a call with three retries failed, and the call
\* returned after sleeps of 100, 200 and 400 milliseconds.
C28_Witness ==
    \E c \in DOMAIN calls :
        /\ calls[c].op = "execute_with_retry"
        /\ calls[c].pc = "returned"
        /\ calls[c].result.kind = "Err"
        /\ calls[c].delays = <<100, 200, 400>>

\* The call is a run of execute (its own, one of execute_with_retry's attempts,
\* or the one trigger_webhook spawned) that has begun.
RunsExecute(c) ==
    /\ calls[c].op \in {"execute", "execute_with_retry", "trigger_webhook"}
    /\ calls[c].ctx_variables # 0

\* Run d is another run of execute, under another execution id than run c.
OtherRun(c, d) ==
    /\ c # d
    /\ RunsExecute(c)
    /\ RunsExecute(d)
    /\ calls[c].execution_id # calls[d].execution_id

\* No other call works on the execution id of call c.
SoleCallOfItsId(c) ==
    \A d \in DOMAIN calls : d # c => calls[d].execution_id # calls[c].execution_id

\* The node outputs of a map of variables or of inputs.
OutputsIn(map) == {map[k] : k \in DOMAIN map \ {WebhookPayloadKey}}

\* C23: two execute runs under different execution ids are independent.  Each
\* has its own variable map, and, no other call using its id, the registry
\* entry of its id refers to that map; no output in a run's variable map or among the inputs it collected was
\* stored by the other run; and when a run returns a result, the result is the
\* one its own handlers determine (Completed with every node of its order
\* stored, or Failed after its own handler failed) and the registry holds that
\* state under its id.
C23_RunsAreIndependent ==
    [][\A c \in DOMAIN calls' :
           (SoleCallOfItsId(c)' /\ \E d \in DOMAIN calls' : OtherRun(c, d)') =>
               /\ \A d \in DOMAIN calls' :
                      OtherRun(c, d)' =>
                          /\ calls'[c].ctx_variables # calls'[d].ctx_variables
                          /\ \A out \in OutputsIn(variables'[calls'[c].ctx_variables])
                                            \cup OutputsIn(calls'[c].input) :
                                 out.by # d
               /\ execution_contexts'[calls'[c].execution_id].variables
                      = calls'[c].ctx_variables
               /\ (Stepped(c) /\ calls'[c].pc = "returned"
                              /\ calls'[c].result.kind = "Ok")
                      => /\ execution_contexts'[calls'[c].execution_id].state
                                = calls'[c].result.state
                         /\ calls'[c].result.state = "Completed"
                                => /\ calls'[c].stored = calls'[c].order
                                   /\ calls'[c].result.nodes_executed
                                          = Len(calls'[c].order)
                         /\ calls'[c].result.state = "Failed"
                                => calls'[c].handler_result = "Err"
                         /\ calls'[c].result.state \in {"Completed", "Failed"}]_vars

\* C23 witness: two runs under different ids are both in a node's handler, the
\* first having collected an input, the second having stored an output.
C23_Witness ==
    /\ Len(calls) >= 2
    /\ OtherRun(1, 2)
    /\ calls[1].pc = "handler"
    /\ calls[1].input # EmptyMap
    /\ calls[2].pc = "handler"
    /\ calls[2].stored # <<>>

\* C24: execution ordering is deterministic: any two calls that have sorted the
\* workflow got the same order from topological_sort.
C24_SameOrderEveryCall ==
    \A c, d \in DOMAIN calls :
        (calls[c].order # <<>> /\ calls[d].order # <<>>)
            => calls[c].order = calls[d].order

\* C25: the execution registry only grows.  No step removes an entry, and
\* every call in which execute has begun has its execution id registered, in
\* every later state.
C25_RegistryOnlyGrows ==
    [][/\ DOMAIN execution_contexts \subseteq DOMAIN execution_contexts'
       /\ \A c \in DOMAIN calls' :
              RunsExecute(c)' => calls'[c].execution_id \in DOMAIN execution_contexts']_vars

\* C25 witness: two executions are registered, one recorded as Cancelled and
\* one as Failed, after the calls that ran them have returned.
C25_Witness ==
    /\ DOMAIN execution_contexts = ExecutionIds
    /\ \E e \in ExecutionIds : execution_contexts[e].state = "Cancelled"
    /\ \E e \in ExecutionIds : execution_contexts[e].state = "Failed"
    /\ Len(calls) = MaxCalls
    /\ \A c \in DOMAIN calls : calls[c].pc = "returned"

\* C26: within one execution dispatch is sequential: no two calls that work on
\* the same execution id are in a node's handler at the same time.
C26_OneNodeAtATime ==
    \A c, d \in DOMAIN calls :
        (c # d /\ calls[c].execution_id = calls[d].execution_id)
            => ~(calls[c].pc = "handler" /\ calls[d].pc = "handler")

\* C27: when parse rejects a workflow with CycleDetected, the node id the error
\* carries is a node on a cycle of the workflow.
C27_CycleNodeIsOnCycle ==
    parse_result.kind = "CycleDetected" => OnCycle(workflow, parse_result.node)

(***************************************************************************)
(* What the last claims speak of.                                          *)
(***************************************************************************)
\* The edges of the validated workflow whose two nodes exist.
ResolvedEdges ==
    {e \in DOMAIN validated_workflow.edges :
        /\ validated_workflow.edges[e].source \in NodeIdsOf(validated_workflow)
        /\ validated_workflow.edges[e].target \in NodeIdsOf(validated_workflow)}

OutputsOf(e) ==
    node_map(validated_workflow, validated_workflow.edges[e].source).outputs

\* C31: the error for an edge's source port tells a node with no output ports
\* from a node that lacks the named port: once validate has returned, an edge
\* whose source node has no output ports at all has a NoOutputPorts entry for
\* that node among the errors, whether the edge names a source handle or not,
\* and an edge that names a handle none of the source node's output ports has
\* has a PortNotFound entry for that node and handle.
C31_NoPortsIsNotPortNotFound ==
    validate_result.kind = "Ok" =>
        \A e \in ResolvedEdges :
            LET edge == validated_workflow.edges[e]
            IN  /\ OutputsOf(e) = <<>> =>
                       HasEntry(validate_result.errors,
                                ValidationEntry("NoOutputPorts", edge.source, "", 0))
                /\ (OutputsOf(e) # <<>> /\ find_port(OutputsOf(e), edge.source_handle) = 0)
                       => HasEntry(validate_result.errors,
                                   ValidationEntry("PortNotFound", edge.source,
                                                   edge.source_handle, 0))

\* C32: execute on a workflow topological_sort rejects (a cyclic workflow)
\* returns Err(ValidationFailed), dispatches no node and writes no output, and
\* leaves the registered context in the state the caller passed in: no step of
\* a call sets a registered state to anything but the Pending of a context
\* that is being registered.
C32_CyclicWorkflowRunsNothing ==
    [][HasCycle(workflow) =>
          /\ \A c \in DOMAIN calls' :
                 /\ calls'[c].dispatched = <<>>
                 /\ calls'[c].stored = <<>>
                 /\ (calls'[c].op = "execute" /\ calls'[c].pc = "returned")
                        => calls'[c].result = ErrResult("ValidationFailed", 1)
          /\ \A m \in DOMAIN variables' : OutputsIn(variables'[m]) = {}
          /\ calls' # calls =>
                 \A e \in DOMAIN execution_contexts' :
                     \/ execution_contexts'[e].state = "Pending"
                     \/ /\ e \in DOMAIN execution_contexts
                        /\ execution_contexts'[e].state = execution_contexts[e].state]_vars

\* C32 witness: on the cyclic workflow an execute call has returned
\* ValidationFailed and its context is registered, still Pending.
C32_Witness ==
    /\ HasCycle(workflow)
    /\ \E c \in DOMAIN calls :
           /\ calls[c].op = "execute"
           /\ calls[c].pc = "returned"
           /\ calls[c].result = ErrResult("ValidationFailed", 1)
           /\ calls[c].execution_id \in DOMAIN execution_contexts
           /\ execution_contexts[calls[c].execution_id].state = "Pending"

\* The calls that run execute once: execute itself and the task trigger_webhook spawns.
IsExecuteCall(c) == calls[c].op \in {"execute", "trigger_webhook"}

\* The recorded state of the run of call c, where the call stands: Pending from
\* the registration to the sort, Running in the loop, and the result's state
\* once the call has returned.
RunStateFollowsCall(c) ==
    LET call == calls[c]
        state == execution_contexts[call.execution_id].state
    IN  /\ call.execution_id \in DOMAIN execution_contexts
        /\ call.pc = "sort" => state = "Pending" /\ call.dispatched = <<>>
        /\ call.pc \in {"dispatch", "handler", "finish"} => state = "Running"
        /\ call.pc = "returned" =>
               /\ call.result.kind = "Ok"
               /\ call.result.state \in {"Completed", "Failed"}
               /\ state = call.result.state
        /\ call.pc \in {"sort", "dispatch", "handler", "finish", "returned"}

\* C33: on an acyclic workflow, the handlers returning and without pause,
\* resume or cancel, every execute call returns, and the recorded state of its
\* run (no other call working on its execution id) is Pending until the sort,
\* Running from before the first dispatch to the end of the loop, and then the
\* Completed or Failed of the result.
C33_RunTerminatesThroughRunning ==
    /\ [](\A c \in DOMAIN calls :
            (~HasCycle(workflow) /\ IsExecuteCall(c) /\ calls[c].ctx_variables # 0
                 /\ SoleCallOfItsId(c))
                => RunStateFollowsCall(c))
    /\ \A c \in 1..MaxCalls :
           (~HasCycle(workflow) /\ c \in DOMAIN calls /\ IsExecuteCall(c))
               ~> (c \in DOMAIN calls /\ calls[c].pc = "returned")

\* C33 witness: an execute call, alone on its execution id, has returned Failed
\* after storing the output of an earlier node, and the recorded state is Failed.
C33_Witness ==
    \E c \in DOMAIN calls :
        /\ calls[c].op = "execute"
        /\ SoleCallOfItsId(c)
        /\ calls[c].pc = "returned"
        /\ calls[c].result.state = "Failed"
        /\ calls[c].stored # <<>>
        /\ execution_contexts[calls[c].execution_id].state = "Failed"

\* The background loops that have neither left their loop nor panicked.
AliveLoops == {l \in DOMAIN loops : loops[l].pc \notin {"exited", "panicked"}}

\* C34: at most one background loop of the scheduler is alive at any time,
\* whatever the sequence of start and stop calls: a start issued after stop never
\* leaves two loops scanning the schedules.
C34_AtMostOneLoopAlive == Cardinality(AliveLoops) <= 1

\* The node call c has handed to execute_node and whose handler is running.
DispatchedNode(c) == calls[c].dispatched[Len(calls[c].dispatched)]

\* Call d resumes a failed execution: an execute run on d's execution id has
\* returned Failed at failed_node_id, and no other call works on that id.
ResumesFailedRun(d) ==
    /\ calls[d].op = "resume_from_failure"
    /\ \E c \in DOMAIN calls :
           /\ calls[c].op \in {"execute", "execute_with_retry", "trigger_webhook"}
           /\ calls[c].execution_id = calls[d].execution_id
           /\ calls[c].ctx_variables = calls[d].ctx_variables
           /\ calls[c].pc = "returned"
           /\ calls[c].result.state = "Failed"
           /\ next_node(calls[c]) = calls[d].failed_node_id
           /\ \A x \in DOMAIN calls \ {c, d} :
                  calls[x].execution_id # calls[d].execution_id

\* C35: whenever a node is dispatched, by execute or by resume_from_failure on
\* an execution that failed at failed_node_id, the run's variable map holds the
\* stored output of the source of every edge into the dispatched node.
C35_PredecessorOutputsStored ==
    \A d \in DOMAIN calls :
        (/\ calls[d].pc = "handler"
         /\ \/ RunsExecute(d)
            \/ ResumesFailedRun(d))
            => \A i \in DOMAIN workflow.edges :
                   workflow.edges[i].target = DispatchedNode(d)
                       => NodeKey(workflow.edges[i].source)
                              \in DOMAIN variables[calls[d].ctx_variables]

\* The source nodes of the edges into node n.
SourcesOf(n) ==
    {workflow.edges[i].source :
        i \in {j \in DOMAIN workflow.edges : workflow.edges[j].target = n}}

\* C36: the input collected for a node holds the stored output of every source
\* node with an edge into it.  For a run of execute that is alone on its
\* execution id, in the handler of a node whose source nodes all have stored
\* outputs, each of those outputs is an entry of the collected input, and the
\* input has as many entries as the node has source nodes, also when two of
\* the edges carry the same source handle.
C36_InputHoldsEverySource ==
    \A d \in DOMAIN calls :
        LET map == variables[calls[d].ctx_variables]
            sources == SourcesOf(DispatchedNode(d))
        IN  (/\ calls[d].pc = "handler"
             /\ RunsExecute(d)
             /\ SoleCallOfItsId(d)
             /\ \A s \in sources : NodeKey(s) \in DOMAIN map)
                => /\ \A s \in sources :
                          \E h \in DOMAIN calls[d].input :
                              calls[d].input[h] = map[NodeKey(s)]
                   /\ Cardinality(DOMAIN calls[d].input) = Cardinality(sources)

\* C37: while the recorded state of an execution is Paused (pause has returned
\* and resume has not been called), no call that runs the execution dispatches
\* a further node or writes a further output to its variable map.
C37_PausedRunStandsStill ==
    [][\A c \in DOMAIN calls :
          LET e == calls[c].execution_id
              m == calls[c].ctx_variables
          IN  (/\ m # 0
               /\ calls[c].pc \in {"dispatch", "handler"}
               /\ e \in DOMAIN execution_contexts
               /\ execution_contexts[e].state = "Paused")
                  => /\ Len(calls'[c].dispatched) <= Len(calls[c].dispatched)
                     /\ Written(variables[m], variables'[m]) = {}]_vars

\* The keys execute and resume_from_failure write: node_<id> for the nodes of
\* the workflow.
NodeKeys == {NodeKey(n) : n \in Range(workflow.nodes)}

\* C38: execute and resume_from_failure only add or overwrite entries keyed
\* node_<id> for nodes of the workflow.  A variable map starts as the variables
\* of the context handed to execute; every step keeps every key of every map,
\* writes node keys only, and so leaves each variable the caller supplied under
\* another key (webhook_payload) in place with its value.
C38_OnlyNodeKeysWritten ==
    [][/\ \A m \in DOMAIN variables :
              /\ m \in DOMAIN variables'
              /\ DOMAIN variables[m] \subseteq DOMAIN variables'[m]
              /\ Written(variables[m], variables'[m]) \subseteq NodeKeys
       /\ \A m \in DOMAIN variables' \ DOMAIN variables :
              \E c \in DOMAIN calls' :
                  /\ calls'[c].ctx_variables = m
                  /\ variables'[m] = calls'[c].initial]_vars

\* C38 witness: a webhook run and a resume_from_failure on its execution have
\* both stored node outputs in the run's variable map, which still holds the
\* payload under webhook_payload.
C38_Witness ==
    \E c, d \in DOMAIN calls :
        /\ calls[c].op = "trigger_webhook"
        /\ calls[d].op = "resume_from_failure"
        /\ calls[d].ctx_variables = calls[c].ctx_variables
        /\ calls[c].stored # <<>>
        /\ calls[d].stored # <<>>
        /\ WebhookPayloadKey \in DOMAIN variables[calls[c].ctx_variables]
        /\ variables[calls[c].ctx_variables][WebhookPayloadKey] =
               calls[c].initial[WebhookPayloadKey]

\* What a resume_from_failure call that cannot run returns, and why: the
\* execution id is not registered, the workflow cannot be ordered, or
\* failed_node_id is not a node of the workflow.
ResumeRefused(call) ==
    /\ call.pc = "returned"
    /\ call.result.kind = "Err"
    /\ call.dispatched = <<>>

\* C39: resume_from_failure returns an error, dispatches no node and changes
\* neither the recorded state nor the variable map of any execution when the
\* execution id is not registered (on the call itself), and when the workflow
\* has no topological order or failed_node_id is not one of its nodes (on the
\* step that sorts).
C39_RefusedResumeChangesNothing ==
    [][/\ \A d \in DOMAIN calls' \ DOMAIN calls :
              (/\ calls'[d].op = "resume_from_failure"
               /\ calls'[d].execution_id \notin DOMAIN execution_contexts)
                  => /\ ResumeRefused(calls'[d])
                     /\ calls'[d].result.error = "NodeNotFound"
                     /\ execution_contexts' = execution_contexts
                     /\ variables' = variables
       /\ \A c \in DOMAIN calls :
              (/\ calls[c].op = "resume_from_failure"
               /\ calls[c].pc = "sort"
               /\ calls'[c] # calls[c]
               /\ \/ HasCycle(workflow)
                  \/ calls[c].failed_node_id \notin Range(workflow.nodes))
                  => /\ ResumeRefused(calls'[c])
                     /\ calls'[c].result.error =
                            IF HasCycle(workflow) THEN "ValidationFailed"
                            ELSE "NodeNotFound"
                     /\ execution_contexts' = execution_contexts
                     /\ variables' = variables]_vars

\* C39 witness: on a failed execution of an acyclic workflow, a
\* resume_from_failure with a failed_node_id that is not a node of the workflow
\* has returned NodeNotFound; the execution is still recorded as Failed.
C39_Witness ==
    \E c, d \in DOMAIN calls :
        /\ ~HasCycle(workflow)
        /\ calls[c].op = "execute"
        /\ calls[c].pc = "returned"
        /\ calls[c].stored # <<>>
        /\ calls[d].op = "resume_from_failure"
        /\ calls[d].execution_id = calls[c].execution_id
        /\ calls[d].failed_node_id \notin Range(workflow.nodes)
        /\ ResumeRefused(calls[d])
        /\ calls[d].result.error = "NodeNotFound"
        /\ execution_contexts[calls[c].execution_id].state = "Failed"

\* The registry after pause, or cancel, of execution_id in the present state.
AfterControl(execution_id, state) ==
    update_context_state(execution_contexts, execution_id, state)

\* C40: the execution id trigger_webhook returned is usable for control from
\* the moment it is returned: in every state after the return, under every
\* interleaving with the spawned task, a pause or a cancel issued with that id
\* leaves the execution registered as Paused, or Cancelled.
C40_ReturnedIdIsControllable ==
    \A c \in DOMAIN calls :
        calls[c].op = "trigger_webhook" =>
            \A state \in {"Paused", "Cancelled"} :
                LET e == calls[c].returned_id
                IN  /\ e \in DOMAIN AfterControl(e, state)
                    /\ AfterControl(e, state)[e].state = state

====
